---- MODULE Spec2Model ----
(***************************************************************************)
(* FlowForge: Draw.io to Mermaid converter (src/flowforge/flowforge.py).   *)
(*                                                                         *)
(* Strings are sequences of lexemes ("atoms"): a word, a punctuation mark  *)
(* or a blank is one atom.  Python's str operations (split, strip, lower,  *)
(* concatenation, substring test) are computed on these sequences.         *)
(* Raw input texts are structured values (an XML model text, a file of     *)
(* <diagram> containers, encoded payloads); the predicates the code        *)
(* evaluates on a text (marker containment, the <diagram> regex, parsing,  *)
(* decoding) are operators over that structure.                            *)
(***************************************************************************)
EXTENDS Integers, Sequences, FiniteSets, TLC

----------------------------------------------------------------------------
(* Python values *)

\* Python None, where a str is expected (a missing XML attribute).
None == <<"~None">>

\* Python True as a style-dict value (a flag token).
PyTrue == <<"~True">>

\* An operator's outcome: a returned value or a raised exception.
Ok(v) == [exc |-> "", val |-> v]
Raise(e) == [exc |-> e, val |-> <<>>]

----------------------------------------------------------------------------
(* str helpers *)

RECURSIVE LStrip(_)
LStrip(s) == IF s # <<>> /\ Head(s) = " " THEN LStrip(Tail(s)) ELSE s

RECURSIVE RStrip(_)
RStrip(s) ==
    IF s # <<>> /\ s[Len(s)] = " " THEN RStrip(SubSeq(s, 1, Len(s) - 1)) ELSE s

\* str.strip()
Strip(s) == RStrip(LStrip(s))

\* str.lower() on one atom
LowerAtom(a) ==
    CASE a = "RHOMBUS" -> "rhombus"
      [] a = "Ellipse" -> "ellipse"
      [] a = "Stadium" -> "stadium"
      [] OTHER -> a

\* str.lower()
Lower(s) == [i \in 1..Len(s) |-> LowerAtom(s[i])]

\* The atoms whose text contains the word w.
AtomsContaining(w) ==
    CASE w = "group" -> {"group", "ungrouped"}
      [] w = "swimlane" -> {"swimlane"}
      [] OTHER -> {w}

\* w in s, for a word w
HasSub(s, w) == \E i \in 1..Len(s) : s[i] \in AtomsContaining(w)

\* Index of the first occurrence of atom a in s, 0 when absent.
RECURSIVE FirstIndex(_, _, _)
FirstIndex(s, a, i) ==
    IF i > Len(s) THEN 0
    ELSE IF s[i] = a THEN i
    ELSE FirstIndex(s, a, i + 1)

\* s.split(a): the pieces between the occurrences of a (always >= 1 piece).
RECURSIVE Split(_, _)
Split(s, a) ==
    LET k == FirstIndex(s, a, 1) IN
    IF k = 0 THEN <<s>>
    ELSE <<SubSeq(s, 1, k - 1)>> \o Split(SubSeq(s, k + 1, Len(s)), a)

\* a.join(parts)
RECURSIVE Join(_, _)
Join(parts, a) ==
    IF parts = <<>> THEN <<>>
    ELSE IF Len(parts) = 1 THEN parts[1]
    ELSE parts[1] \o <<a>> \o Join(Tail(parts), a)

----------------------------------------------------------------------------
(* dict, as the sequence of its (key, value) items in insertion order *)

DictHas(d, k) == \E i \in 1..Len(d) : d[i].k = k

\* d.get(k, default)
DictGet(d, k, default) ==
    IF DictHas(d, k)
    THEN d[CHOOSE i \in 1..Len(d) : d[i].k = k].v
    ELSE default

\* d[k] = v: an existing key keeps its position
DictSet(d, k, v) ==
    IF DictHas(d, k)
    THEN [i \in 1..Len(d) |-> IF d[i].k = k THEN [k |-> k, v |-> v] ELSE d[i]]
    ELSE Append(d, [k |-> k, v |-> v])

----------------------------------------------------------------------------
(* parse_style *)

\* StyleToken that keeps the first value of a key seen twice.
StyleTokenKeepsFirst(style_dict, token) ==
    LET eq == FirstIndex(token, "=", 1)
        key == IF eq # 0 THEN SubSeq(token, 1, eq - 1) ELSE token
    IN  IF token = <<>> \/ DictHas(style_dict, key) THEN style_dict
        ELSE IF eq # 0
        THEN DictSet(style_dict, key, SubSeq(token, eq + 1, Len(token)))
        ELSE DictSet(style_dict, key, PyTrue)

\* StyleToken whose value starts at the '=' instead of after it.
StyleTokenKeepsEquals(style_dict, token) ==
    LET eq == FirstIndex(token, "=", 1) IN
    IF eq # 0
    THEN DictSet(style_dict, SubSeq(token, 1, eq - 1),
                 SubSeq(token, eq, Len(token)))
    ELSE IF token # <<>> THEN DictSet(style_dict, token, PyTrue)
    ELSE style_dict

\* One iteration of the token loop of parse_style.
StyleToken(style_dict, token) ==
    LET eq == FirstIndex(token, "=", 1) IN
    IF eq # 0
    THEN DictSet(style_dict, SubSeq(token, 1, eq - 1),
                 SubSeq(token, eq + 1, Len(token)))
    ELSE IF token # <<>> THEN DictSet(style_dict, token, PyTrue)
    ELSE style_dict

RECURSIVE StyleLoop(_, _)
StyleLoop(style_dict, tokens) ==
    IF tokens = <<>> THEN style_dict
    ELSE StyleLoop(StyleToken(style_dict, Head(tokens)), Tail(tokens))

parse_style(style_str) ==
    IF style_str # <<>> THEN StyleLoop(<<>>, Split(style_str, ";")) ELSE <<>>

----------------------------------------------------------------------------
(* Node and edge formatting *)

\* Python truthiness of a str-or-None-or-True value.
Truthy(v) == v # <<>> /\ v # None

\* s.replace(old, new), left to right, non-overlapping.
RECURSIVE Replace(_, _, _)
Replace(s, old, new) ==
    IF Len(s) < Len(old) THEN s
    ELSE IF SubSeq(s, 1, Len(old)) = old
         THEN new \o Replace(SubSeq(s, Len(old) + 1, Len(s)), old, new)
         ELSE <<Head(s)>> \o Replace(Tail(s), old, new)

\* "N" + x: TypeError when x is None.
NPlus(x) == IF x = None THEN Raise("TypeError") ELSE Ok(<<"N">> \o x)

\* The label text of a node line (first statement of _format_node).
NodeLabel(node) ==
    IF Truthy(node.label) THEN Strip(node.label)
    ELSE <<"Node_">> \o node.id

\* _format_node with the rounded/stadium rule tested before the others.
FormatNodeRoundedFirst(node) ==
    LET label == NodeLabel(node)
        style == node.style_dict
        node_id == NPlus(node.id)
        rawshape == DictGet(style, <<"shape">>, <<>>)
        shape == Lower(rawshape)
    IN  IF node_id.exc # "" THEN node_id
        ELSE IF rawshape = PyTrue THEN Raise("AttributeError")
        ELSE IF DictGet(style, <<"rounded">>, None) = <<"1">>
                \/ shape = <<"stadium">>
             THEN Ok(node_id.val \o <<"(", "\"">> \o label \o <<"\"", ")">>)
        ELSE IF shape = <<"rhombus">>
             THEN Ok(node_id.val \o <<"{", "\"">> \o label \o <<"\"", "}">>)
        ELSE IF shape = <<"ellipse">> \/ DictHas(style, <<"ellipse">>)
             THEN Ok(node_id.val \o <<"(", "(", " ", "\"">> \o label
                     \o <<"\"", " ", ")", ")">>)
        ELSE Ok(node_id.val \o <<"[", "\"">> \o label \o <<"\"", "]">>)

_format_node(node) ==
    LET label == NodeLabel(node)
        style == node.style_dict
        node_id == NPlus(node.id)
        rawshape == DictGet(style, <<"shape">>, <<>>)
        shape == Lower(rawshape)
    IN  IF node_id.exc # "" THEN node_id
        ELSE IF rawshape = PyTrue THEN Raise("AttributeError")
        ELSE IF shape = <<"rhombus">>
             THEN Ok(node_id.val \o <<"{", "\"">> \o label \o <<"\"", "}">>)
        ELSE IF shape = <<"ellipse">> \/ DictHas(style, <<"ellipse">>)
             THEN Ok(node_id.val \o <<"(", "(", " ", "\"">> \o label
                     \o <<"\"", " ", ")", ")">>)
        ELSE IF DictGet(style, <<"rounded">>, None) = <<"1">>
                \/ shape = <<"stadium">>
             THEN Ok(node_id.val \o <<"(", "\"">> \o label \o <<"\"", ")">>)
        ELSE Ok(node_id.val \o <<"[", "\"">> \o label \o <<"\"", "]">>)

\* The connector of an edge line (the arrow of _format_edge).
EdgeArrow(style) ==
    LET a0 == <<"-", "-", ">">>
        a1 == IF Truthy(DictGet(style, <<"dashed">>, None))
                 \/ DictGet(style, <<"dashed">>, None) = <<"1">>
              THEN <<"-", ".", "-", ">">>
              ELSE a0
    IN  IF DictGet(style, <<"endArrow">>, None) = <<"none">>
        THEN Replace(a1, <<"-", ">">>, <<"-">>)
        ELSE a1

_format_edge(edge) ==
    LET src == NPlus(edge.source)
        tgt == NPlus(edge.target)
        label == Strip(edge.label)
        arrow == EdgeArrow(edge.style_dict)
    IN  IF src.exc # "" THEN src
        ELSE IF tgt.exc # "" THEN tgt
        ELSE IF label # <<>>
             THEN Ok(src.val \o <<" ", "-", "-", " ", "\"">> \o label
                     \o <<"\"", " ">> \o arrow \o <<" ">> \o tgt.val)
        ELSE Ok(src.val \o <<" ">> \o arrow \o <<" ">> \o tgt.val)

----------------------------------------------------------------------------
(* Emitting Mermaid syntax *)

\* "    " * indent_level
RECURSIVE Indent(_)
Indent(indent_level) ==
    IF indent_level = 0 THEN <<>> ELSE <<"    ">> \o Indent(indent_level - 1)

\* A recursion limit of one nested call.
RecursionDepthOne(groups) == 1

\* The interpreter's recursion limit, counted in nested group calls.  A call
\* chain longer than the number of groups has re-entered a group id, so it
\* never returns and ends in RecursionError at the interpreter's limit.
RecursionDepth(groups) == Len(groups)

\* _emit_subgraph_recursive, reading self.diagram["groups"] (self_groups).
\* The child loop is EmitChildren; depth counts the nested calls.
RECURSIVE EmitSubgraph(_, _, _, _, _)
RECURSIVE EmitChildren(_, _, _, _, _, _)
EmitChildren(self_groups, group_id, children, indent_level, depth, lines) ==
    IF children = <<>> THEN Ok(lines)
    ELSE
      LET child == Head(children)
          child_id == child.id
      IN  IF DictHas(self_groups, child_id)
          THEN LET nested == EmitSubgraph(self_groups, child_id,
                                          DictGet(self_groups, child_id, None),
                                          indent_level + 1, depth + 1)
               IN  IF nested.exc # "" THEN nested
                   ELSE EmitChildren(self_groups, group_id, Tail(children),
                                     indent_level, depth, lines \o nested.val)
          ELSE LET node_def == _format_node(child)
               IN  EmitChildren(self_groups, group_id, Tail(children),
                                indent_level, depth,
                                IF node_def.exc # "" THEN lines
                                ELSE Append(lines, Indent(indent_level)
                                              \o <<"    ">> \o node_def.val))

EmitSubgraph(self_groups, group_id, group, indent_level, depth) ==
    IF depth > RecursionDepth(self_groups) THEN Raise("RecursionError")
    ELSE
      LET header == Indent(indent_level) \o <<"subgraph", " ">> \o group_id
                      \o <<"[">> \o group.label \o <<"]">>
          body == EmitChildren(self_groups, group_id, group.children,
                               indent_level, depth, <<header>>)
      IN  IF body.exc # "" THEN body
          ELSE Ok(Append(body.val, Indent(indent_level) \o <<"end">>))

_emit_subgraph_recursive(self_groups, group_id, group, indent_level) ==
    EmitSubgraph(self_groups, group_id, group, indent_level, 1)

\* The group loop of _emit_mermaid: st = [lines, nodes_emitted].
RECURSIVE EmitGroups(_, _, _)
EmitGroups(self_groups, items, st) ==
    IF items = <<>> THEN st
    ELSE
      LET group_id == Head(items).k
          group == Head(items).v
          group_lines == _emit_subgraph_recursive(self_groups, group_id, group, 0)
      IN  EmitGroups(self_groups, Tail(items),
            IF group_lines.exc # "" THEN st
            ELSE [lines |-> st.lines \o group_lines.val,
                  nodes_emitted |-> st.nodes_emitted
                     \cup {group.children[i].id : i \in 1..Len(group.children)}])

\* The flat node loop of _emit_mermaid.
RECURSIVE EmitNodes(_, _, _)
EmitNodes(nodes, nodes_emitted, lines) ==
    IF nodes = <<>> THEN lines
    ELSE
      LET node == Head(nodes)
          node_def == _format_node(node)
      IN  EmitNodes(Tail(nodes), nodes_emitted,
            IF node.id \notin nodes_emitted /\ node_def.exc = ""
            THEN Append(lines, node_def.val)
            ELSE lines)

\* MissingEndpoints that skips an edge only when both endpoints are unknown.
MissingEndpointsBoth(node_map, edge) ==
    ~DictHas(node_map, edge.source) /\ ~DictHas(node_map, edge.target)

\* The endpoint test of the edge loop: TRUE when the edge is skipped.
MissingEndpoints(node_map, edge) ==
    ~DictHas(node_map, edge.source) \/ ~DictHas(node_map, edge.target)

\* The edge loop of _emit_mermaid, reading self.node_map.
RECURSIVE EmitEdges(_, _, _)
EmitEdges(node_map, edges, lines) ==
    IF edges = <<>> THEN lines
    ELSE
      LET edge == Head(edges)
          edge_def == _format_edge(edge)
      IN  EmitEdges(node_map, Tail(edges),
            IF MissingEndpoints(node_map, edge) \/ edge_def.exc # ""
            THEN lines
            ELSE Append(lines, edge_def.val))

\* _emit_mermaid with the edge loop run before the flat node loop.
EmitMermaidEdgesFirst(self, diagram, direction, diagram_type) ==
    LET header == <<"flowchart", " ">> \o direction
        g == EmitGroups(self.diagram.groups, diagram.groups,
                        [lines |-> <<header>>, nodes_emitted |-> {}])
        e == EmitEdges(self.node_map, diagram.edges, g.lines)
        n == EmitNodes(diagram.nodes, g.nodes_emitted, e)
    IN  Join(n, "\n")

\* _emit_mermaid(diagram, direction, diagram_type) on the instance self.
_emit_mermaid(self, diagram, direction, diagram_type) ==
    LET header == IF diagram_type = <<"flowchart">>
                  THEN <<"flowchart", " ">> \o direction
                  ELSE <<"flowchart", " ">> \o direction
        g == EmitGroups(self.diagram.groups, diagram.groups,
                        [lines |-> <<header>>, nodes_emitted |-> {}])
        n == EmitNodes(diagram.nodes, g.nodes_emitted, g.lines)
        e == EmitEdges(self.node_map, diagram.edges, n)
    IN  Join(e, "\n")

----------------------------------------------------------------------------
(* XML elements (xml.etree.ElementTree) *)

\* The attributes of an element; None is a missing attribute.
NoAttrs ==
    [id |-> None, vertex |-> None, edge |-> None, value |-> None,
     style |-> None, parent |-> None, source |-> None, target |-> None]

Element(tag, kids, at) == [tag |-> tag, kids |-> kids, at |-> at]

\* What find() returns when nothing matches (Python None).
NoElement == Element("~None", <<>>, NoAttrs)

\* element.findall(tag): the direct children with that tag, in order
FindAll(el, tag) == SelectSeq(el.kids, LAMBDA k : k.tag = tag)

\* element.find(tag): the first direct child with that tag
Find(el, tag) ==
    IF FindAll(el, tag) = <<>> THEN NoElement ELSE Head(FindAll(el, tag))

\* x or ""
OrEmpty(x) == IF Truthy(x) THEN x ELSE <<>>

----------------------------------------------------------------------------
(* Building the internal representation *)

EmptyDiagram == [nodes |-> <<>>, edges |-> <<>>, groups |-> <<>>]

\* BuildCell that tests the edge marker before the vertex marker.
BuildCellEdgeFirst(st, cell) ==
    LET cell_id == cell.at.id IN
    IF cell_id \in {<<"0">>, <<"1">>} THEN st
    ELSE IF cell.at.edge = <<"1">>
    THEN [st EXCEPT !.edges =
            Append(@, [id |-> cell_id,
                       source |-> cell.at.source,
                       target |-> cell.at.target,
                       label |-> OrEmpty(cell.at.value),
                       style |-> OrEmpty(cell.at.style),
                       style_dict |-> parse_style(OrEmpty(cell.at.style))])]
    ELSE IF cell.at.vertex = <<"1">>
    THEN [st EXCEPT !.nodes =
            Append(@, [id |-> cell_id,
                       label |-> OrEmpty(cell.at.value),
                       style |-> OrEmpty(cell.at.style),
                       style_dict |-> parse_style(OrEmpty(cell.at.style)),
                       geometry |-> <<>>,
                       parent |-> cell.at.parent]),
                    !.node_map =
            DictSet(@, cell_id,
                      [id |-> cell_id,
                       label |-> OrEmpty(cell.at.value),
                       style |-> OrEmpty(cell.at.style),
                       style_dict |-> parse_style(OrEmpty(cell.at.style)),
                       geometry |-> <<>>,
                       parent |-> cell.at.parent])]
    ELSE st

\* The body of the cell loop of _build_diagram_from_root for one cell.
BuildCell(st, cell) ==
    LET cell_id == cell.at.id IN
    IF cell_id \in {<<"0">>, <<"1">>} THEN st
    ELSE IF cell.at.vertex = <<"1">>
    THEN LET style == OrEmpty(cell.at.style)
             node == [id |-> cell_id,
                      label |-> OrEmpty(cell.at.value),
                      style |-> style,
                      style_dict |-> parse_style(style),
                      geometry |-> <<>>,
                      parent |-> cell.at.parent]
         IN  [st EXCEPT !.nodes = Append(@, node),
                        !.node_map = DictSet(@, cell_id, node)]
    ELSE IF cell.at.edge = <<"1">>
    THEN LET edge == [id |-> cell_id,
                      source |-> cell.at.source,
                      target |-> cell.at.target,
                      label |-> OrEmpty(cell.at.value),
                      style |-> OrEmpty(cell.at.style),
                      style_dict |-> parse_style(OrEmpty(cell.at.style))]
         IN  [st EXCEPT !.edges = Append(@, edge)]
    ELSE st

RECURSIVE BuildCells(_, _)
BuildCells(st, cells) ==
    IF cells = <<>> THEN st ELSE BuildCells(BuildCell(st, Head(cells)), Tail(cells))

\* BuildGroup without the test of the parent's style.
BuildGroupAnyParent(node_map, groups, node) ==
    LET parent == node.parent IN
    IF Truthy(parent) /\ DictHas(node_map, parent)
    THEN LET pnode == DictGet(node_map, parent, None)
             g0 == IF DictHas(groups, parent) THEN groups
                   ELSE DictSet(groups, parent,
                          [label |-> IF Truthy(pnode.label) THEN pnode.label
                                     ELSE <<"Group_">> \o parent,
                           children |-> <<>>])
         IN  DictSet(g0, parent,
                     [DictGet(g0, parent, None) EXCEPT !.children = Append(@, node)])
    ELSE groups

\* The body of the group loop of _build_diagram_from_root for one node.
BuildGroup(node_map, groups, node) ==
    LET parent == node.parent IN
    IF Truthy(parent) /\ DictHas(node_map, parent)
    THEN LET pnode == DictGet(node_map, parent, None)
             parent_style == pnode.style
         IN  IF HasSub(parent_style, "group") \/ HasSub(parent_style, "swimlane")
             THEN LET g0 == IF DictHas(groups, parent) THEN groups
                            ELSE DictSet(groups, parent,
                                   [label |-> IF Truthy(pnode.label) THEN pnode.label
                                              ELSE <<"Group_">> \o parent,
                                    children |-> <<>>])
                      g == DictGet(g0, parent, None)
                  IN  DictSet(g0, parent,
                              [g EXCEPT !.children = Append(@, node)])
             ELSE groups
    ELSE groups

RECURSIVE BuildGroups(_, _, _)
BuildGroups(node_map, groups, nodes) ==
    IF nodes = <<>> THEN groups
    ELSE BuildGroups(node_map, BuildGroup(node_map, groups, Head(nodes)), Tail(nodes))

\* ResetModel that keeps the node index of the previous call.
ResetModelKeepsNodeMap(self) == [self EXCEPT !.diagram = EmptyDiagram]

\* The first two statements of _build_diagram_from_root.
ResetModel(self) == [self EXCEPT !.node_map = <<>>, !.diagram = EmptyDiagram]

\* _build_diagram_from_root: the outcome carries the instance after the call;
\* val is the returned diagram (self.diagram).
_build_diagram_from_root(self, root) ==
    LET self0 == ResetModel(self)
        model == IF root.tag = "diagram" /\ Find(root, "mxGraphModel") # NoElement
                 THEN Find(root, "mxGraphModel") ELSE root
        diagram_root == IF Find(model, "root") = NoElement THEN model
                        ELSE Find(model, "root")
    IN  IF diagram_root = NoElement
        THEN IF self.strict_mode
             THEN [exc |-> "DiagramParsingError", val |-> self0.diagram, self |-> self0]
             ELSE [exc |-> "", val |-> self0.diagram, self |-> self0]
        ELSE
          LET st == BuildCells([nodes |-> self0.diagram.nodes,
                                edges |-> self0.diagram.edges,
                                node_map |-> self0.node_map],
                               FindAll(diagram_root, "mxCell"))
              diagram == [nodes |-> st.nodes, edges |-> st.edges,
                          groups |-> BuildGroups(st.node_map, self0.diagram.groups,
                                                 st.nodes)]
          IN  [exc |-> "", val |-> diagram,
               self |-> [self0 EXCEPT !.node_map = st.node_map, !.diagram = diagram]]

----------------------------------------------------------------------------
(* Texts.  A text is one of                                                *)
(*   model  a <mxGraphModel> element text: lead (leading whitespace),      *)
(*          prolog (<?xml ...?> present), ent ("nbsp" when it holds the    *)
(*          entity &nbsp;, "num" for &#160;, "none"), ok (well-formed),    *)
(*          hasRoot (cells under <root>), cells                            *)
(*   file   <diagram> containers holding the fragments frags, inside an    *)
(*          <mxfile> root when mxfile; selfClosing when the containers     *)
(*          are written <diagram/> (no closing tag, no content)            *)
(*   other  text with neither the marker nor a <diagram> tag: ok when it   *)
(*          is well-formed XML (cells under its root), angle when it holds *)
(*          both '<' and '>'                                               *)
(*   blank  empty or whitespace only                                       *)
(*   pct    the percent-encoding of the text of                            *)
(*   b64    the base64 encoding of the bytes of                            *)
(*   badb64 text that base64 decoding rejects                              *)
(*   bytes  no str at all: the caller passed a bytes object                *)
(* and bytes are utf8 (the encoding of a text), deflate / zlib / gzip (a   *)
(* compressed text; angle: the printable residue holds '<' and '>'), or    *)
(* noise.                                                                  *)
(***************************************************************************)

ModelText(lead, prolog, ent, ok, hasRoot, cells) ==
    [t |-> "model", lead |-> lead, prolog |-> prolog, ent |-> ent, ok |-> ok,
     hasRoot |-> hasRoot, cells |-> cells]

FileText(lead, prolog, mxfile, selfClosing, frags) ==
    [t |-> "file", lead |-> lead, prolog |-> prolog, mxfile |-> mxfile,
     selfClosing |-> selfClosing, frags |-> frags]

\* An <mxfile> whose <diagram> elements hold the XML-escaped text of the
\* fragments and close with '</diagram >': the pattern of re.findall does not
\* match it, the parser does, and the element text is the fragment.
EscapedFile(frags) == [t |-> "escfile", frags |-> frags]

OtherText(ok, angle, cells) ==
    [t |-> "other", ok |-> ok, angle |-> angle, cells |-> cells]

BlankText == [t |-> "blank"]
BytesInput == [t |-> "bytes"]
BadB64Text == [t |-> "badb64"]
PctText(x) == [t |-> "pct", of |-> x]
B64Text(b) == [t |-> "b64", of |-> b]

Utf8Bytes(x) == [b |-> "utf8", of |-> x]
PackedBytes(how, x, angle) == [b |-> how, of |-> x, angle |-> angle]
NoiseBytes(angle) == [b |-> "noise", angle |-> angle]

\* "<mxGraphModel" in x
RECURSIVE HasMarker(_)
HasMarker(x) ==
    CASE x.t = "model" -> TRUE
      [] x.t = "file" -> \E i \in 1..Len(x.frags) : HasMarker(x.frags[i])
      [] OTHER -> FALSE

\* x.strip()
StripText(x) == IF x.t \in {"model", "file"} THEN [x EXCEPT !.lead = FALSE] ELSE x

\* x.startswith('<')
StartsWithLt(x) ==
    CASE x.t \in {"model", "file"} -> ~x.lead
      [] x.t = "escfile" -> TRUE
      [] x.t = "other" -> x.ok
      [] OTHER -> FALSE

\* x.startswith('<?xml')
StartsWithProlog(x) == x.t \in {"model", "file"} /\ ~x.lead /\ x.prolog

\* x.startswith('<mxGraphModel')
StartsWithModel(x) == x.t = "model" /\ ~x.lead /\ ~x.prolog

\* x.startswith('<diagram')
StartsWithDiagram(x) == x.t = "file" /\ ~x.lead /\ ~x.prolog /\ ~x.mxfile

\* '<' in x and '>' in x
HasAngles(x) ==
    CASE x.t \in {"model", "file", "escfile"} -> TRUE
      [] x.t = "other" -> x.angle
      [] OTHER -> FALSE

\* x.replace('&nbsp;', '&#160;')
RECURSIVE ReplaceNbsp(_)
ReplaceNbsp(x) ==
    CASE x.t = "model" -> IF x.ent = "nbsp" THEN [x EXCEPT !.ent = "num"] ELSE x
      [] x.t = "file" ->
           [x EXCEPT !.frags = [i \in 1..Len(x.frags) |-> ReplaceNbsp(x.frags[i])]]
      [] OTHER -> x

\* '<?xml version="1.0" encoding="UTF-8"?>\n' + x: the whitespace that led x
\* now follows the prolog.
PrependProlog(x) ==
    IF x.t \in {"model", "file"} THEN [x EXCEPT !.prolog = TRUE, !.lead = FALSE]
    ELSE x

\* f'<diagram>{x}</diagram>'
WrapInDiagram(x) == FileText(FALSE, FALSE, FALSE, FALSE, <<x>>)

CellElements(cells) == [i \in 1..Len(cells) |-> Element("mxCell", <<>>, cells[i])]

\* The element of a well-formed model text.
ModelElement(x) ==
    IF x.hasRoot
    THEN Element("mxGraphModel",
                 <<Element("root", CellElements(x.cells), NoAttrs)>>, NoAttrs)
    ELSE Element("mxGraphModel", CellElements(x.cells), NoAttrs)

\* A text that may stand inside a <diagram> element of a well-formed document.
Embeddable(f) ==
    CASE f.t = "model" -> f.ok /\ ~f.prolog /\ f.ent # "nbsp"
      [] f.t = "other" -> f.ok \/ ~f.angle
      [] f.t = "file" -> FALSE
      [] OTHER -> TRUE

\* The <diagram> element around fragment f.
DiagramElement(f) ==
    CASE f.t = "model" -> Element("diagram", <<ModelElement(f)>>, NoAttrs)
      [] f.t = "other" /\ f.ok ->
           Element("diagram", <<Element("other", CellElements(f.cells), NoAttrs)>>,
                   NoAttrs)
      [] OTHER -> Element("diagram", <<>>, NoAttrs)

\* ET.fromstring(x)
ETfromstring(x) ==
    CASE x.t = "model" ->
           IF x.ok /\ x.ent # "nbsp" /\ ~(x.lead /\ x.prolog)
           THEN Ok(ModelElement(x)) ELSE Raise("ParseError")
      [] x.t = "file" ->
           IF /\ ~(x.lead /\ x.prolog)
              /\ x.mxfile \/ Len(x.frags) = 1
              /\ \A i \in 1..Len(x.frags) : Embeddable(x.frags[i])
           THEN IF x.mxfile
                THEN Ok(Element("mxfile",
                          [i \in 1..Len(x.frags) |-> DiagramElement(x.frags[i])],
                          NoAttrs))
                ELSE Ok(DiagramElement(x.frags[1]))
           ELSE Raise("ParseError")
      [] x.t = "escfile" ->
           Ok(Element("mxfile",
                [i \in 1..Len(x.frags) |-> Element("diagram", <<>>, NoAttrs)],
                NoAttrs))
      [] x.t = "other" ->
           IF x.ok THEN Ok(Element("other", CellElements(x.cells), NoAttrs))
           ELSE Raise("ParseError")
      [] OTHER -> Raise("ParseError")

\* The text _parse_xml hands to ET.fromstring.
NormalizeXml(xml_data) ==
    LET x1 == ReplaceNbsp(xml_data)
        x2 == IF ~StartsWithProlog(StripText(x1)) /\ HasMarker(x1)
              THEN PrependProlog(x1) ELSE x1
    IN  IF StartsWithModel(StripText(x2)) /\ ~StartsWithDiagram(StripText(x2))
        THEN WrapInDiagram(x2) ELSE x2

\* The wrapper descent of _parse_xml.
DescendRoot(root) ==
    IF root.tag = "diagram"
    THEN IF Find(root, "mxGraphModel") # NoElement
         THEN Find(root, "mxGraphModel") ELSE root
    ELSE IF root.tag = "mxfile"
    THEN LET diagram == Find(root, "diagram") IN
         IF diagram # NoElement /\ Find(diagram, "mxGraphModel") # NoElement
         THEN Find(diagram, "mxGraphModel") ELSE root
    ELSE root

\* _parse_xml that returns None on a parse error in strict mode too.
ParseXmlReturnsNone(self, xml_data) ==
    LET parsed == ETfromstring(NormalizeXml(xml_data)) IN
    IF parsed.exc = "" THEN Ok(DescendRoot(parsed.val)) ELSE Ok(NoElement)

\* _parse_xml: val is the root element, NoElement for None.
_parse_xml(self, xml_data) ==
    LET parsed == ETfromstring(NormalizeXml(xml_data)) IN
    IF parsed.exc = "" THEN Ok(DescendRoot(parsed.val))
    ELSE IF self.strict_mode THEN Raise("DiagramParsingError")
    ELSE Ok(NoElement)

----------------------------------------------------------------------------
(* Decoding and decompression *)

\* re.findall(r"<diagram[^>]*>(.*?)</diagram>", xml_data, re.DOTALL)
FindDiagrams(xml_data) ==
    IF xml_data.t = "file" /\ ~xml_data.selfClosing THEN xml_data.frags ELSE <<>>

\* The fallback of _decompress_data when the regex finds nothing: the text of
\* every <diagram> child of an <mxfile> root, "" for a child without text.
MxfileDiagrams(xml_data) ==
    LET root == ETfromstring(xml_data) IN
    IF root.exc = "" /\ root.val.tag = "mxfile"
    THEN [i \in 1..Len(FindAll(root.val, "diagram")) |->
            IF xml_data.t = "escfile" THEN xml_data.frags[i]
            ELSE IF xml_data.selfClosing THEN BlankText ELSE xml_data.frags[i]]
    ELSE <<>>

\* urllib.parse.unquote(d)
Unquote(d) == IF d.t = "pct" THEN d.of ELSE d

\* base64.b64decode(d) after padding, with the urlsafe retry
B64Decode(d) == IF d.t = "b64" THEN Ok(d.of) ELSE Raise("binascii.Error")

\* The text left of bytes that are no UTF-8 text, and of their printable part.
Residue(decoded) == OtherText(FALSE, decoded.angle, <<>>)

\* decoded.decode('utf-8', errors='ignore')
DecodeIgnore(decoded) == IF decoded.b = "utf8" THEN decoded.of ELSE Residue(decoded)

\* The stream formats zlib.decompress accepts for a wbits value.
WbitsFormats(wbits) ==
    CASE wbits = -15 -> {"deflate"}
      [] wbits = 47 -> {"zlib", "gzip"}
      [] wbits = 31 -> {"gzip"}
      [] wbits = 15 -> {"zlib"}
      [] wbits = 0 -> {"zlib", "gzip"}
      [] OTHER -> {}

\* zlib.decompress(decoded, wbits).decode('utf-8', errors='replace')
ZlibDecompress(decoded, wbits) ==
    IF decoded.b \in WbitsFormats(wbits) THEN Ok(decoded.of) ELSE Raise("zlib.error")

\* decompression_attempts without the raw-deflate entry.
AttemptsWithoutRawDeflate == <<47, 31, 15, 0>>

\* decompression_attempts
DecompressionAttempts == <<-15, 47, 31, 15, 0>>

\* The loop over decompression_attempts: st = [pages, is_decompressed].
RECURSIVE TryAttempts(_, _, _)
TryAttempts(decoded, attempts, st) ==
    IF attempts = <<>> \/ st.is_decompressed THEN st
    ELSE
      LET xml_text == ZlibDecompress(decoded, Head(attempts)) IN
      TryAttempts(decoded, Tail(attempts),
        IF xml_text.exc = "" /\ HasMarker(xml_text.val)
        THEN [pages |-> Append(st.pages, xml_text.val), is_decompressed |-> TRUE]
        ELSE st)

\* gzip.decompress(decoded), and decompressobj(16 + MAX_WBITS).decompress(decoded)
GzipDecompress(decoded) ==
    IF decoded.b = "gzip" THEN Ok(decoded.of) ELSE Raise("gzip.BadGzipFile")

\* TryGzip without the test of is_decompressed.
TryGzipAlways(decoded, st) ==
    LET xml_text == GzipDecompress(decoded) IN
    IF xml_text.exc = "" /\ HasMarker(xml_text.val)
    THEN [pages |-> Append(st.pages, xml_text.val), is_decompressed |-> TRUE]
    ELSE st

\* The explicit gzip attempt and the PAKO variant.
TryGzip(decoded, st) ==
    LET xml_text == GzipDecompress(decoded) IN
    IF ~st.is_decompressed /\ xml_text.exc = "" /\ HasMarker(xml_text.val)
    THEN [pages |-> Append(st.pages, xml_text.val), is_decompressed |-> TRUE]
    ELSE st

\* re.sub(r'[^\x20-\x7E]', '', decoded.decode('latin-1', errors='ignore'))
Cleaned(decoded) ==
    IF decoded.b = "utf8" THEN StripText(decoded.of) ELSE Residue(decoded)

\* TryLastResort that runs in strict mode too.
TryLastResortAnyMode(self, decoded, st) ==
    IF ~st.is_decompressed /\ HasAngles(Cleaned(decoded))
    THEN [pages |-> Append(st.pages, Cleaned(decoded)), is_decompressed |-> TRUE]
    ELSE st

\* The last resort, relaxed mode only.
TryLastResort(self, decoded, st) ==
    IF ~st.is_decompressed /\ ~self.strict_mode /\ HasAngles(Cleaned(decoded))
    THEN [pages |-> Append(st.pages, Cleaned(decoded)), is_decompressed |-> TRUE]
    ELSE st

\* Base64Failed that aborts the call in relaxed mode too.
Base64FailedAborts(self, pages) ==
    [exc |-> "DiagramDecompressionError", pages |-> pages]

\* The except clause around base64 decoding: raise in strict mode, else
\* continue with the next fragment.
Base64Failed(self, pages) ==
    [exc |-> IF self.strict_mode THEN "DiagramDecompressionError" ELSE "",
     pages |-> pages]

\* The body of the fragment loop of _decompress_data for one fragment, on the
\* pages collected so far: exc is the error that aborts the call.
DecodeFragment(self, pages, d0) ==
    LET d == StripText(d0) IN
    IF d.t = "blank" THEN [exc |-> "", pages |-> pages]
    ELSE IF StartsWithLt(d) /\ HasMarker(d)
    THEN [exc |-> "", pages |-> Append(pages, d)]
    ELSE IF HasMarker(Unquote(d))
    THEN [exc |-> "", pages |-> Append(pages, Unquote(d))]
    ELSE
      LET decoded == B64Decode(d) IN
      IF decoded.exc # "" THEN Base64Failed(self, pages)
      ELSE
        LET xml_check == DecodeIgnore(decoded.val) IN
        IF StartsWithLt(xml_check) /\ HasMarker(xml_check)
        THEN [exc |-> "", pages |-> Append(pages, xml_check)]
        ELSE
          LET s1 == TryAttempts(decoded.val, DecompressionAttempts,
                                [pages |-> pages, is_decompressed |-> FALSE])
              s2 == TryGzip(decoded.val, s1)
              s3 == TryGzip(decoded.val, s2)
              s4 == TryLastResort(self, decoded.val, s3)
          IN  IF ~s4.is_decompressed /\ self.strict_mode
              THEN [exc |-> "DiagramDecompressionError", pages |-> s4.pages]
              ELSE [exc |-> "", pages |-> s4.pages]

\* The fragment loop of _decompress_data.
RECURSIVE DecodeFragments(_, _, _)
DecodeFragments(self, pages, diagrams) ==
    IF diagrams = <<>> THEN [exc |-> "", pages |-> pages]
    ELSE
      LET r == DecodeFragment(self, pages, Head(diagrams)) IN
      IF r.exc # "" THEN r
      ELSE DecodeFragments(self, r.pages, Tail(diagrams))

\* _decompress_data after its first test: the <diagram> fragments.
DecompressDiagrams(self, xml_data) ==
    LET found == FindDiagrams(xml_data)
        diagrams == IF found = <<>> THEN MxfileDiagrams(xml_data) ELSE found
    IN  IF diagrams # <<>>
        THEN LET r == DecodeFragments(self, self.diagram_pages, diagrams)
             IN  [exc |-> r.exc, self |-> [self EXCEPT !.diagram_pages = r.pages]]
        ELSE IF HasMarker(xml_data)
        THEN [exc |-> "",
              self |-> [self EXCEPT !.diagram_pages = Append(@, xml_data)]]
        ELSE [exc |-> IF self.strict_mode THEN "DiagramDecompressionError" ELSE "",
              self |-> self]

\* _decompress_data without its first test: every input goes to the fragments.
DecompressWithoutShortCircuit(self, xml_data) ==
    IF xml_data.t = "bytes" THEN [exc |-> "TypeError", self |-> self]
    ELSE DecompressDiagrams(self, xml_data)

\* _decompress_data: the outcome carries the instance after the call.  The
\* test '"<mxGraphModel" in xml_data' is a TypeError on a bytes object.
_decompress_data(self, xml_data) ==
    IF xml_data.t = "bytes" THEN [exc |-> "TypeError", self |-> self]
    ELSE IF HasMarker(xml_data)
    THEN [exc |-> "",
          self |-> [self EXCEPT !.diagram_pages = Append(@, xml_data)]]
    ELSE DecompressDiagrams(self, xml_data)

----------------------------------------------------------------------------
(* The converter instance and its public operations *)

VARIABLES
    strict_mode,     \* self.strict_mode
    node_map,        \* self.node_map
    diagram,         \* self.diagram
    diagram_pages,   \* self.diagram_pages
    call,            \* the last public call and its arguments
    outcome          \* what that call returned or raised

vars == <<strict_mode, node_map, diagram, diagram_pages, call, outcome>>

\* The instance as one value.
Self ==
    [strict_mode |-> strict_mode, node_map |-> node_map, diagram |-> diagram,
     diagram_pages |-> diagram_pages]

\* The state of a converter right after __init__.
NewSelf(strict) ==
    [strict_mode |-> strict, node_map |-> <<>>, diagram |-> EmptyDiagram,
     diagram_pages |-> <<>>]

\* seq[i] with Python's indexing: negative i counts from the end.
PyIndex(seq, i) ==
    IF 0 <= i /\ i < Len(seq) THEN Ok(seq[i + 1])
    ELSE IF i < 0 /\ -i <= Len(seq) THEN Ok(seq[Len(seq) + i + 1])
    ELSE Raise("IndexError")

\* IndexOutOfRange without the test for a negative index.
IndexOutOfRangeHighOnly(diagram_index, pages) == diagram_index >= Len(pages)

\* The range test of convert on the page index: TRUE when out of range.
IndexOutOfRange(diagram_index, pages) ==
    diagram_index < 0 \/ diagram_index >= Len(pages)

\* The last statement of convert: emit the model that was built.
EmitPage(built, direction, diagram_type) ==
    IF built.exc # "" THEN [exc |-> built.exc, text |-> <<>>, self |-> built.self]
    ELSE [exc |-> "",
          text |-> _emit_mermaid(built.self, built.val, direction, diagram_type),
          self |-> built.self]

\* The statements of convert after _parse_xml returned root: the test for a
\* None root, then build and emit.
BuildPage(self, root, direction, diagram_type) ==
    IF root.exc # "" THEN [exc |-> root.exc, text |-> <<>>, self |-> self]
    ELSE IF root.val = NoElement THEN [exc |-> "", text |-> <<>>, self |-> self]
    ELSE EmitPage(_build_diagram_from_root(self, root.val), direction, diagram_type)

\* The statements of convert from the selected page on (parse, build, emit).
ConvertPage(self, xml_diagram, direction, diagram_type) ==
    BuildPage(self, _parse_xml(self, xml_diagram), direction, diagram_type)

\* NoPagesFound that returns "" in strict mode too.
NoPagesFoundReturns(self) == [exc |-> "", text |-> <<>>, self |-> self]

\* The outcome of convert's test for an empty page list.
NoPagesFound(self) ==
    [exc |-> IF self.strict_mode THEN "DiagramDecompressionError" ELSE "",
     text |-> <<>>, self |-> self]

\* The statements of convert after the test for an empty page list: the
\* range test on the index, the page selection, and the rest.
SelectPage(self, diagram_index, direction, diagram_type) ==
    IF IndexOutOfRange(diagram_index, self.diagram_pages) /\ self.strict_mode
    THEN [exc |-> "IndexError", text |-> <<>>, self |-> self]
    ELSE
      LET index == IF IndexOutOfRange(diagram_index, self.diagram_pages) THEN 0
                   ELSE diagram_index
          xml_diagram == PyIndex(self.diagram_pages, index)
      IN  IF xml_diagram.exc # ""
          THEN [exc |-> xml_diagram.exc, text |-> <<>>, self |-> self]
          ELSE ConvertPage(self, xml_diagram.val, direction, diagram_type)

\* The statements of convert after _decompress_data returned ex.
ConvertPages(ex, diagram_index, direction, diagram_type) ==
    IF ex.exc # "" THEN [exc |-> ex.exc, text |-> <<>>, self |-> ex.self]
    ELSE IF ex.self.diagram_pages = <<>> THEN NoPagesFound(ex.self)
    ELSE SelectPage(ex.self, diagram_index, direction, diagram_type)

\* The try block of convert.
ConvertBody(self, input_data, diagram_index, direction, diagram_type) ==
    ConvertPages(_decompress_data([self EXCEPT !.diagram_pages = <<>>], input_data),
                 diagram_index, direction, diagram_type)

\* ConvertHandler with the exception re-raised whatever the mode.
ConvertHandlerReraises(self, body) ==
    IF body.exc = ""
    THEN [exc |-> "", failure |-> "", text |-> body.text, indices |-> <<>>]
    ELSE [exc |-> body.exc, failure |-> body.exc, text |-> <<>>, indices |-> <<>>]

\* The except clause of convert: failure is the exception it caught and logged.
ConvertHandler(self, body) ==
    IF body.exc = ""
    THEN [exc |-> "", failure |-> "", text |-> body.text, indices |-> <<>>]
    ELSE IF self.strict_mode
    THEN [exc |-> body.exc, failure |-> body.exc, text |-> <<>>, indices |-> <<>>]
    ELSE [exc |-> "", failure |-> body.exc, text |-> <<>>, indices |-> <<>>]

\* What convert hands back: the outcome for the caller and the instance it leaves.
ConvertReturn(self, body) == [out |-> ConvertHandler(self, body), self |-> body.self]

\* convert(input_data, diagram_index, direction, diagram_type)
convert(self, input_data, diagram_index, direction, diagram_type) ==
    ConvertReturn(self,
        ConvertBody(self, input_data, diagram_index, direction, diagram_type))

\* The return statement of list_diagram_pages: list(range(len(self.diagram_pages))).
PageIndices(ex) ==
    [out |-> [exc |-> ex.exc, failure |-> "", text |-> <<>>,
              indices |-> IF ex.exc # "" THEN <<>>
                          ELSE [i \in 1..Len(ex.self.diagram_pages) |-> i - 1]],
     self |-> ex.self]

\* list_diagram_pages(xml_data)
list_diagram_pages(self, xml_data) ==
    PageIndices(_decompress_data([self EXCEPT !.diagram_pages = <<>>], xml_data))

----------------------------------------------------------------------------
(* Inputs *)

\* The longest run of <diagram> fragments in an enumerated file.
MaxFrags == 2

\* The largest page index a caller passes; the smallest is -1.
MaxIndex == 1

Cell0 == [NoAttrs EXCEPT !.id = <<"0">>]
Cell1 == [NoAttrs EXCEPT !.id = <<"1">>, !.parent = <<"0">>]

Vertex(id, value, style, parent) ==
    [NoAttrs EXCEPT !.id = id, !.vertex = <<"1">>, !.value = value,
                    !.style = style, !.parent = parent]

EdgeCell(id, source, target, value, style) ==
    [NoAttrs EXCEPT !.id = id, !.edge = <<"1">>, !.source = source,
                    !.target = target, !.value = value, !.style = style]

\* One rounded node, no edges.
CellsA ==
    <<Cell0, Cell1,
      Vertex(<<"2">>, <<"Start">>, <<"rounded", "=", "1">>, <<"1">>)>>

\* Two nodes, a dashed labelled edge, an edge to an unknown id, an edge
\* without source, a solid edge without label.
CellsB ==
    <<Cell0, Cell1,
      Vertex(<<"2">>, <<"A">>, None, <<"1">>),
      Vertex(<<"3">>, <<" ">>, <<"shape", "=", "RHOMBUS", ";", "rounded", "=", "1">>,
             <<"1">>),
      EdgeCell(<<"4">>, <<"2">>, <<"3">>, <<" ", "go", " ">>, <<"dashed", "=", "1">>),
      EdgeCell(<<"5">>, <<"2">>, <<"8">>, None, None),
      EdgeCell(<<"6">>, None, <<"3">>, <<"x">>, None),
      EdgeCell(<<"7">>, <<"3">>, <<"2">>, None, <<"html", "=", "1">>)>>

\* A swimlane holding a node and a nested group.
CellsC ==
    <<Cell0, Cell1,
      Vertex(<<"5">>, <<"Lane">>, <<"swimlane">>, <<"1">>),
      Vertex(<<"6">>, None, <<"ellipse", ";", "html", "=", "1">>, <<"5">>),
      Vertex(<<"7">>, None, <<"ungrouped">>, <<"5">>),
      Vertex(<<"8">>, <<"B">>, <<"shape", "=", "Stadium">>, <<"7">>),
      EdgeCell(<<"9">>, <<"6">>, <<"8">>, None,
               <<"dashed", ";", "endArrow", "=", "none">>)>>

\* Cells without id, a bare shape flag, a cell with both markers, a reserved
\* id carrying a vertex marker, a cell with no marker.
CellsD ==
    <<[Vertex(<<"1">>, <<"L">>, None, None) EXCEPT !.edge = <<"1">>],
      Vertex(None, <<"anon">>, None, None),
      Vertex(<<"3">>, <<"C">>, <<"shape">>, None),
      [Vertex(<<"4">>, None, <<"shape", "=", "ellipse">>, None) EXCEPT
          !.edge = <<"1">>, !.source = <<"3">>, !.target = <<"3">>],
      [NoAttrs EXCEPT !.id = <<"8">>, !.value = <<"note">>],
      EdgeCell(<<"5">>, None, None, None, None),
      EdgeCell(None, <<"3">>, <<"4">>, None, <<"endArrow", "=", "none">>)>>

\* Two containers that are each other's parent.
CellsE ==
    <<Vertex(<<"a">>, None, <<"group">>, <<"b">>),
      Vertex(<<"b">>, <<"Pool">>, <<"swimlane", ";", "rounded", "=", "1">>, <<"a">>),
      Vertex(<<"c">>, <<"C">>, None, <<"a">>),
      EdgeCell(<<"e">>, <<"a">>, <<"c">>, <<>>, <<"dashed", "=", "0">>)>>

\* Two cells with one id, and an edge from it to itself.
CellsF ==
    <<Vertex(<<"2">>, <<"X">>, None, <<"1">>),
      Vertex(<<"2">>, <<"Y">>, <<"shape", "=", "stadium", ";", "ellipse", "=", "0">>,
             <<"1">>),
      EdgeCell(<<"3">>, <<"2">>, <<"2">>, <<" ">>, <<"dashed", "=">>)>>

\* A container with an empty id and a cell naming it as parent, a container
\* whose id is taken again by a later plain cell, and an unlabelled swimlane
\* with two members around a cell that is none.
CellsH ==
    <<Vertex(<<>>, <<"E">>, <<"group">>, None),
      Vertex(<<"x">>, <<"X">>, None, <<>>),
      Vertex(<<"d">>, <<"D1">>, <<"swimlane">>, <<"1">>),
      Vertex(<<"d">>, <<"D2">>, None, <<"1">>),
      Vertex(<<"n">>, <<"N">>, None, <<"k">>),
      Vertex(<<"m">>, <<"M">>, None, <<"d">>),
      Vertex(<<"k">>, None, <<"swimlane">>, <<"1">>),
      Vertex(<<"o">>, None, <<"rounded", "=", "1">>, <<"k">>)>>

\* A container that is its own parent, and a container that holds one of two
\* cells sharing the id of a container on a parent cycle.
CellsG ==
    <<Vertex(<<"s">>, <<"Self">>, <<"group">>, <<"s">>),
      Vertex(<<"t">>, <<"T">>, None, <<"s">>),
      Vertex(<<"g">>, <<"G">>, <<"swimlane">>, <<"1">>),
      Vertex(<<"a">>, None, <<"group">>, <<"b">>),
      Vertex(<<"b">>, None, <<"group">>, <<"a">>),
      Vertex(<<"a">>, <<"A2">>, <<"group">>, <<"g">>)>>

CellLists == {CellsA, CellsB, CellsC, CellsD, CellsE, CellsF, CellsG, CellsH}

\* The plain model text of a cell list.
Model(cells) == ModelText(FALSE, FALSE, "none", TRUE, TRUE, cells)

ModelTexts ==
    {Model(c) : c \in CellLists}
    \cup {ModelText(FALSE, TRUE, "none", TRUE, TRUE, CellsB),
          ModelText(TRUE, TRUE, "none", TRUE, TRUE, CellsA),
          ModelText(FALSE, FALSE, "nbsp", TRUE, TRUE, CellsA),
          ModelText(FALSE, FALSE, "none", FALSE, TRUE, CellsA),
          ModelText(TRUE, FALSE, "none", TRUE, FALSE, CellsC)}

\* An <mxfile> of <diagram> containers around the fragments q.
Mxfile(q) == FileText(FALSE, FALSE, TRUE, FALSE, q)

Deflated(x) == B64Text(PackedBytes("deflate", x, FALSE))

FileTexts ==
    {Mxfile(<<PctText(Model(CellsA)), Deflated(Model(CellsB))>>),
     Mxfile(<<Deflated(Model(CellsB))>>),
     Mxfile(<<BadB64Text>>),
     Mxfile(<<BlankText>>),
     Mxfile(<<B64Text(NoiseBytes(TRUE))>>),
     Mxfile(<<BadB64Text, PctText(Model(CellsA))>>),
     Mxfile(<<Deflated(Model(CellsC)), B64Text(NoiseBytes(FALSE))>>),
     Mxfile(<<Model(CellsA), Model(CellsB)>>),
     Mxfile(<<B64Text(Utf8Bytes(OtherText(TRUE, TRUE, CellsA)))>>),
     FileText(FALSE, FALSE, TRUE, TRUE, <<BlankText, BlankText>>),
     FileText(FALSE, FALSE, FALSE, FALSE, <<Model(CellsB)>>),
     FileText(FALSE, FALSE, FALSE, FALSE, <<Deflated(Model(CellsC))>>)}

OtherTexts ==
    {BlankText, BytesInput, OtherText(FALSE, FALSE, <<>>),
     OtherText(TRUE, TRUE, CellsA)}

\* The raw inputs handed to the converter.
Inputs == ModelTexts \cup FileTexts \cup OtherTexts

\* Fragments that are combined into files of several pages.
FragPool ==
    {BlankText,
     BadB64Text,
     PctText(Model(CellsA)),
     Deflated(Model(CellsB)),
     B64Text(NoiseBytes(TRUE))}

\* Fragments that are tried alone.
SoloFrags ==
    {ModelText(TRUE, FALSE, "none", TRUE, TRUE, CellsC),
     PctText(Mxfile(<<Model(CellsC), Model(CellsA)>>)),
     B64Text(Utf8Bytes(Model(CellsC))),
     B64Text(Utf8Bytes(ModelText(TRUE, FALSE, "none", TRUE, TRUE, CellsB))),
     B64Text(Utf8Bytes(OtherText(TRUE, TRUE, CellsA))),
     B64Text(PackedBytes("deflate", Model(CellsC), TRUE)),
     B64Text(PackedBytes("zlib", Model(CellsE), FALSE)),
     B64Text(PackedBytes("gzip", Model(CellsF), TRUE)),
     B64Text(PackedBytes("deflate", OtherText(FALSE, TRUE, <<>>), FALSE)),
     B64Text(PackedBytes("gzip", OtherText(FALSE, FALSE, <<>>), TRUE)),
     B64Text(NoiseBytes(FALSE))}

\* The sequences over FragPool of length 1..n.
RECURSIVE FragSeqs(_)
FragSeqs(n) ==
    IF n = 0 THEN {}
    ELSE IF n = 1 THEN {<<f>> : f \in FragPool}
    ELSE FragSeqs(n - 1)
         \cup {Append(q, f) : q \in {r \in FragSeqs(n - 1) : Len(r) = n - 1},
                              f \in FragPool}

\* The fragment sequences of the escaped files: one fragment per decoding
\* strategy, a text behind a prolog, blank fragments around a text.
EscapedFrags ==
    {<<ModelText(TRUE, FALSE, "none", TRUE, TRUE, CellsA),
       PctText(Model(CellsB)),
       B64Text(Utf8Bytes(Model(CellsC))),
       B64Text(PackedBytes("deflate", Model(CellsE), TRUE)),
       B64Text(NoiseBytes(TRUE))>>,
     <<ModelText(FALSE, TRUE, "none", TRUE, TRUE, CellsB),
       B64Text(PackedBytes("zlib", Model(CellsA), TRUE))>>,
     <<BlankText, Model(CellsC), BlankText, Model(CellsA)>>,
     <<Model(CellsA), BadB64Text, Model(CellsB)>>}

\* The raw inputs of the extraction runs: the inputs above, and files of
\* every fragment sequence up to MaxFrags.
PageInputs ==
    Inputs
    \cup {Mxfile(q) : q \in FragSeqs(MaxFrags)}
    \cup {FileText(FALSE, TRUE, TRUE, FALSE, <<f>>) : f \in SoloFrags}
    \cup {EscapedFile(q) : q \in EscapedFrags}
    \cup {Mxfile(<<BadB64Text, Model(CellsC)>>),
          FileText(FALSE, FALSE, FALSE, TRUE, <<BlankText>>),
          FileText(TRUE, FALSE, FALSE, FALSE, <<Deflated(Model(CellsA))>>)}

\* (direction, diagram_type) as the callers pass them.
Layouts == {<<<<"TD">>, <<"flowchart">>>>, <<<<"LR">>, <<"sequence">>>>}

Indices == -1..MaxIndex

----------------------------------------------------------------------------
(* The state machine: one converter instance and its callers *)

NoOutcome == [exc |-> "", failure |-> "", text |-> <<>>, indices |-> <<>>]

Init ==
    /\ strict_mode \in BOOLEAN
    /\ node_map = <<>>
    /\ diagram = EmptyDiagram
    /\ diagram_pages = <<>>
    /\ call = [op |-> "__init__", input_data |-> BlankText, diagram_index |-> 0,
               direction |-> <<>>, diagram_type |-> <<>>]
    /\ outcome = NoOutcome

\* The call returned r: the caller sees r.out, the instance is r.self.
Returned(r) ==
    /\ node_map' = r.self.node_map
    /\ diagram' = r.self.diagram
    /\ diagram_pages' = r.self.diagram_pages
    /\ outcome' = r.out

Convert(input_data, diagram_index, direction, diagram_type) ==
    /\ call' = [op |-> "convert", input_data |-> input_data,
                diagram_index |-> diagram_index, direction |-> direction,
                diagram_type |-> diagram_type]
    /\ Returned(convert(Self, input_data, diagram_index, direction, diagram_type))
    /\ UNCHANGED strict_mode

ListDiagramPages(xml_data) ==
    /\ call' = [op |-> "list_diagram_pages", input_data |-> xml_data,
                diagram_index |-> 0, direction |-> <<>>, diagram_type |-> <<>>]
    /\ Returned(list_diagram_pages(Self, xml_data))
    /\ UNCHANGED strict_mode

Next ==
    \/ \E x \in Inputs, i \in Indices, l \in Layouts : Convert(x, i, l[1], l[2])
    \/ \E x \in Inputs : ListDiagramPages(x)

Spec == Init /\ [][Next]_vars

\* The formatting runs: one mxCell read from a page is built into a node or
\* an edge as _build_diagram_from_root builds it, and formatted.

\* The most tokens in an enumerated style attribute.
MaxStyleTokens == 2

\* The sequences over tokens of length 0..n.
RECURSIVE TokenSeqs(_, _)
TokenSeqs(tokens, n) ==
    IF n = 0 THEN {<<>>}
    ELSE LET shorter == TokenSeqs(tokens, n - 1) IN
         shorter \cup {Append(q, t) : q \in {r \in shorter : Len(r) = n - 1},
                                      t \in tokens}

\* The style attributes made of up to MaxStyleTokens tokens, and no attribute.
Styles(tokens) ==
    {None} \cup {Join(q, ";") : q \in TokenSeqs(tokens, MaxStyleTokens)}

NodeStyleTokens ==
    {<<"shape", "=", "rhombus">>, <<"shape", "=", "RHOMBUS">>,
     <<"shape", "=", "ellipse">>, <<"shape", "=", "Ellipse">>,
     <<"shape", "=", "stadium">>, <<"shape">>,
     <<"ellipse">>, <<"ellipse", "=", "0">>,
     <<"rounded", "=", "1">>, <<"rounded", "=", "0">>, <<"rounded">>,
     <<"html", "=", "1">>, <<>>}

EdgeStyleTokens ==
    {<<"dashed", "=", "1">>, <<"dashed", "=", "0">>, <<"dashed">>,
     <<"dashed", "=">>, <<"endArrow", "=", "none">>,
     <<"endArrow", "=", "classic">>, <<"html", "=", "1">>, <<>>}

FormatCells ==
    {Vertex(<<"2">>, value, style, <<"1">>) :
        value \in {None, <<"Start">>, <<" ", "A", " ">>},
        style \in Styles(NodeStyleTokens)}
    \cup {EdgeCell(<<"4">>, <<"2">>, <<"3">>, value, style) :
        value \in {None, <<"go">>, <<" ", "go", " ">>, <<" ">>},
        style \in Styles(EdgeStyleTokens)}

InitFormat ==
    /\ strict_mode \in BOOLEAN
    /\ node_map = <<>>
    /\ diagram = EmptyDiagram
    /\ diagram_pages = <<>>
    /\ call \in {[op |-> "mxCell", input_data |-> cell, diagram_index |-> 0,
                   direction |-> <<>>, diagram_type |-> <<>>] : cell \in FormatCells}
    /\ outcome = NoOutcome

\* The cell of the formatting run, built into nodes and edges.
BuiltCell ==
    BuildCell([nodes |-> <<>>, edges |-> <<>>, node_map |-> <<>>],
              Element("mxCell", <<>>, call.input_data))

\* What a formatter returned or raised.
Formatted(r) == [exc |-> r.exc, failure |-> "", text |-> r.val, indices |-> <<>>]

FormatNode ==
    /\ call.op = "mxCell" /\ BuiltCell.nodes # <<>>
    /\ outcome' = Formatted(_format_node(BuiltCell.nodes[1]))
    /\ call' = [call EXCEPT !.op = "_format_node"]
    /\ UNCHANGED <<strict_mode, node_map, diagram, diagram_pages>>

FormatEdge ==
    /\ call.op = "mxCell" /\ BuiltCell.edges # <<>>
    /\ outcome' = Formatted(_format_edge(BuiltCell.edges[1]))
    /\ call' = [call EXCEPT !.op = "_format_edge"]
    /\ UNCHANGED <<strict_mode, node_map, diagram, diagram_pages>>

NextFormat == FormatNode \/ FormatEdge

SpecFormat == InitFormat /\ [][NextFormat]_vars

\* The style runs: parse_style on the style attribute of a cell, as
\* _build_diagram_from_root calls it.
AnyStyleTokens ==
    {<<"a", "=", "1">>, <<"a", "=", "2">>, <<"a">>, <<"a", "=">>,
     <<"b", "=", "x", "=", "y">>, <<"b">>, <<"=", "1">>, <<"=">>, <<>>}

InitStyle ==
    /\ strict_mode \in BOOLEAN
    /\ node_map = <<>>
    /\ diagram = EmptyDiagram
    /\ diagram_pages = <<>>
    /\ call \in {[op |-> "mxCell",
                   input_data |-> Vertex(<<"2">>, None, style, <<"1">>),
                   diagram_index |-> 0, direction |-> <<>>, diagram_type |-> <<>>] :
                  style \in Styles(AnyStyleTokens)}
    /\ outcome = NoOutcome

ParseStyle ==
    /\ call.op = "mxCell"
    /\ outcome' = Ok(parse_style(OrEmpty(call.input_data.style)))
    /\ call' = [call EXCEPT !.op = "parse_style"]
    /\ UNCHANGED <<strict_mode, node_map, diagram, diagram_pages>>

NextStyle == ParseStyle

SpecStyle == InitStyle /\ [][NextStyle]_vars

\* The extraction runs: list_diagram_pages on every raw input.
NextPages == \E x \in PageInputs : ListDiagramPages(x)

SpecPages == Init /\ [][NextPages]_vars

\* The interleaved runs: two threads call convert on one instance without a
\* lock.  call[t] is the call of thread t with its position pc in convert
\* and its local variables root and diagram; outcome[t] is what the call
\* returned or raised.  The fields of the instance are the shared state.
\* A thread runs from one access of the shared fields to the next in one
\* step: the reset of the page list, _decompress_data, the selection and
\* the parsing of the page, _build_diagram_from_root, _emit_mermaid.
Threads == {1, 2}

ThreadInputs ==
    {Model(CellsB), Model(CellsC), Mxfile(<<Deflated(Model(CellsA))>>)}

InitThreads ==
    /\ strict_mode \in BOOLEAN
    /\ node_map = <<>>
    /\ diagram = EmptyDiagram
    /\ diagram_pages = <<>>
    /\ call \in [Threads ->
                  {[op |-> "convert", input_data |-> x, diagram_index |-> 0,
                    direction |-> <<"TD">>, diagram_type |-> <<"flowchart">>,
                    pc |-> "reset", root |-> NoElement, diagram |-> EmptyDiagram] :
                   x \in ThreadInputs}]
    /\ outcome = [t \in Threads |-> NoOutcome]

\* Thread t leaves the try block of convert with body: return or except clause.
Leaves(t, body) ==
    /\ outcome' = [outcome EXCEPT ![t] = ConvertHandler(Self, body)]
    /\ call' = [call EXCEPT ![t].pc = "done"]

\* self.diagram_pages = []
ResetPages(t) ==
    /\ call[t].pc = "reset"
    /\ diagram_pages' = <<>>
    /\ call' = [call EXCEPT ![t].pc = "decompress"]
    /\ UNCHANGED <<strict_mode, node_map, diagram, outcome>>

\* _decompress_data returned ex to thread t.
Decompressed(t, ex) ==
    /\ diagram_pages' = ex.self.diagram_pages
    /\ IF ex.exc # ""
       THEN Leaves(t, [exc |-> ex.exc, text |-> <<>>, self |-> ex.self])
       ELSE call' = [call EXCEPT ![t].pc = "select"] /\ UNCHANGED outcome

\* self._decompress_data(input_data)
Decompress(t) ==
    /\ call[t].pc = "decompress"
    /\ Decompressed(t, _decompress_data(Self, call[t].input_data))
    /\ UNCHANGED <<strict_mode, node_map, diagram>>

\* _parse_xml returned root to thread t: the test for a None root.
Parsed(t, root) ==
    IF root.exc # "" \/ root.val = NoElement
    THEN Leaves(t, [exc |-> root.exc, text |-> <<>>, self |-> Self])
    ELSE /\ call' = [call EXCEPT ![t].pc = "build", ![t].root = root.val]
         /\ UNCHANGED outcome

\* xml_diagram = self.diagram_pages[diagram_index]; root = self._parse_xml(xml_diagram)
Selected(t, xml_diagram) ==
    IF xml_diagram.exc # ""
    THEN Leaves(t, [exc |-> xml_diagram.exc, text |-> <<>>, self |-> Self])
    ELSE Parsed(t, _parse_xml(Self, xml_diagram.val))

\* The statements of convert from the test for an empty page list to the
\* test for a None root, on the page list as it is now.
SelectAndParse(t) ==
    /\ call[t].pc = "select"
    /\ IF diagram_pages = <<>> THEN Leaves(t, NoPagesFound(Self))
       ELSE IF IndexOutOfRange(call[t].diagram_index, diagram_pages) /\ strict_mode
       THEN Leaves(t, [exc |-> "IndexError", text |-> <<>>, self |-> Self])
       ELSE Selected(t, PyIndex(diagram_pages,
                       IF IndexOutOfRange(call[t].diagram_index, diagram_pages)
                       THEN 0 ELSE call[t].diagram_index))
    /\ UNCHANGED <<strict_mode, node_map, diagram, diagram_pages>>

\* _build_diagram_from_root returned b to thread t: the instance holds the
\* new node index and model, the local variable diagram the model.
Built(t, b) ==
    /\ node_map' = b.self.node_map
    /\ diagram' = b.self.diagram
    /\ IF b.exc # ""
       THEN Leaves(t, [exc |-> b.exc, text |-> <<>>, self |-> b.self])
       ELSE /\ call' = [call EXCEPT ![t].pc = "emit", ![t].diagram = b.val]
            /\ UNCHANGED outcome

\* diagram = self._build_diagram_from_root(root)
Build(t) ==
    /\ call[t].pc = "build"
    /\ Built(t, _build_diagram_from_root(Self, call[t].root))
    /\ UNCHANGED <<strict_mode, diagram_pages>>

\* return self._emit_mermaid(diagram, direction, diagram_type): the lines of
\* the local model, with the group index and the node index of the instance.
Emit(t) ==
    /\ call[t].pc = "emit"
    /\ Leaves(t, [exc |-> "",
                  text |-> _emit_mermaid(Self, call[t].diagram, call[t].direction,
                                         call[t].diagram_type),
                  self |-> Self])
    /\ UNCHANGED <<strict_mode, node_map, diagram, diagram_pages>>

NextThreads ==
    \E t \in Threads :
        \/ ResetPages(t)
        \/ Decompress(t)
        \/ SelectAndParse(t)
        \/ Build(t)
        \/ Emit(t)

SpecThreads == InitThreads /\ [][NextThreads]_vars

----------------------------------------------------------------------------
(* Properties of convert and list_diagram_pages *)

\* The last call was convert on a str.
ConvertCalled == call.op = "convert" /\ call.input_data.t # "bytes"

\* The last call was convert and it selected a page: extraction gave pages and
\* neither extraction nor the index test raised.
PageSelected ==
    /\ ConvertCalled
    /\ diagram_pages # <<>>
    /\ outcome.failure \notin {"DiagramDecompressionError", "IndexError"}

\* What a converter fresh from __init__ returns for the arguments of the last call.
FreshOutcome(diagram_index) ==
    convert(NewSelf(strict_mode), call.input_data, diagram_index,
            call.direction, call.diagram_type)

\* C1: in relaxed mode convert never raises, and a failure that reaches its
\* except clause ends in the empty string; in strict mode that failure is
\* raised to the caller.
C1_RelaxedNeverRaises ==
    call.op = "convert" =>
        /\ ~strict_mode =>
              /\ outcome.exc = ""
              /\ outcome.failure # "" => outcome.text = <<>>
        /\ strict_mode /\ outcome.failure # "" => outcome.exc = outcome.failure

\* A relaxed convert call whose except clause caught a failure.
C1_Witness ==
    call.op = "convert" /\ ~strict_mode /\ outcome.failure # "" /\ outcome.exc = ""

\* C2: when extraction yields zero pages from a text, strict convert raises,
\* relaxed convert returns the empty string and relaxed list_diagram_pages
\* returns the empty list.
C2_ZeroPages ==
    call.op \in {"convert", "list_diagram_pages"}
    /\ call.input_data.t # "bytes" /\ diagram_pages = <<>> =>
        /\ call.op = "convert" /\ strict_mode =>
              outcome.exc = "DiagramDecompressionError"
        /\ call.op = "convert" /\ ~strict_mode =>
              outcome.exc = "" /\ outcome.text = <<>>
        /\ call.op = "list_diagram_pages" /\ ~strict_mode =>
              outcome.exc = "" /\ outcome.indices = <<>>

\* A strict convert call on a file whose fragments are all empty.
C2_Witness ==
    /\ call.op = "convert" /\ strict_mode /\ diagram_pages = <<>>
    /\ call.input_data.t = "file"
    /\ \A i \in 1..Len(call.input_data.frags) : call.input_data.frags[i].t = "blank"
    /\ outcome.exc # ""

\* C3: a page index outside [0, pageCount) raises IndexError in strict mode
\* and in relaxed mode returns the text returned for index 0; an index inside
\* the range converts the page at that index.
C3_PageIndex ==
    ConvertCalled /\ diagram_pages # <<>>
    /\ outcome.failure # "DiagramDecompressionError" =>
        LET i == call.diagram_index
            inside == 0 <= i /\ i < Len(diagram_pages)
            page == ConvertHandler(Self,
                      ConvertPage(Self, diagram_pages[i + 1], call.direction,
                                  call.diagram_type))
        IN  /\ ~inside /\ strict_mode => outcome.exc = "IndexError"
            /\ ~inside /\ ~strict_mode => outcome = FreshOutcome(0).out
            /\ inside => outcome = page

\* A relaxed convert call with a negative index on a document of two
\* different pages.
C3_Witness ==
    /\ ConvertCalled /\ ~strict_mode /\ call.diagram_index < 0
    /\ Len(diagram_pages) = 2 /\ diagram_pages[1] # diagram_pages[2]
    /\ outcome.text # <<>>

\* C4: whatever calls came before on the instance, convert returns what a
\* freshly constructed converter with the same strict_mode returns for the
\* same arguments.
C4_SameAsFresh ==
    call.op = "convert" => outcome = FreshOutcome(call.diagram_index).out

\* A convert call that returned early and left the model of an earlier call
\* in the instance.
C4_Witness ==
    /\ call.op = "convert" /\ outcome.text = <<>>
    /\ diagram.nodes # <<>> /\ diagram_pages = <<>>

\* The last call was convert and it emitted text: the model in the instance
\* is the one that call built.
Emitted == call.op = "convert" /\ outcome.text # <<>>

\* The ids of the collected nodes.
NodeIds == {diagram.nodes[i].id : i \in 1..Len(diagram.nodes)}

\* An edge whose source and target are both present and both collected node ids.
Resolvable(edge) ==
    /\ edge.source # None /\ edge.source \in NodeIds
    /\ edge.target # None /\ edge.target \in NodeIds

\* The lines of the emitted text that hold a connector.
EdgeLines ==
    SelectSeq(Split(outcome.text, "\n"),
              LAMBDA line : \E i \in 1..Len(line) : line[i] = "-")

\* The selected page parsed into a root element.
PageParsed ==
    /\ PageSelected
    /\ LET i == IF IndexOutOfRange(call.diagram_index, diagram_pages) THEN 0
                ELSE call.diagram_index
           root == _parse_xml(Self, diagram_pages[i + 1])
       IN  root.exc = "" /\ root.val # NoElement

\* C5: an edge whose source or target is missing or is not the id of a
\* collected node gives no output line in either mode and does not make
\* convert raise; every edge with two collected endpoints gives exactly one
\* line, in edge order.
C5_EdgeLines ==
    /\ PageParsed => outcome.exc = "" /\ outcome.text # <<>>
    /\ Emitted =>
          LET kept == SelectSeq(diagram.edges, Resolvable) IN
          EdgeLines = [i \in 1..Len(kept) |-> _format_edge(kept[i]).val]

\* A strict convert call that emitted a model holding an edge without source,
\* an edge to an unknown id, and an edge between two collected nodes.
C5_Witness ==
    /\ Emitted /\ strict_mode
    /\ \E i \in 1..Len(diagram.edges) : diagram.edges[i].source = None
    /\ \E i \in 1..Len(diagram.edges) :
          /\ diagram.edges[i].source \in NodeIds
          /\ diagram.edges[i].target \notin NodeIds \cup {None}
    /\ \E i \in 1..Len(diagram.edges) : Resolvable(diagram.edges[i])

\* C6: when the raw input contains the marker <mxGraphModel anywhere,
\* extraction yields exactly one page, the whole raw input, whatever
\* <diagram> containers the input holds.
C6_MarkerOnePage ==
    call.op = "list_diagram_pages" /\ call.input_data.t # "bytes"
    /\ HasMarker(call.input_data) =>
        /\ diagram_pages = <<call.input_data>>
        /\ outcome.exc = ""
        /\ outcome.indices = <<0>>

\* Extraction from a file of two <diagram> containers with literal models.
C6_Witness ==
    /\ call.op = "list_diagram_pages" /\ call.input_data.t = "file"
    /\ Len(call.input_data.frags) = 2
    /\ \A i \in 1..2 : call.input_data.frags[i].t = "model"
    /\ Len(diagram_pages) = 1

\* The text a fragment carries under the decoding strategies of both modes:
\* percent-encoded, base64 of the text, or base64 of a raw-deflate, zlib or
\* gzip stream of it; <<>> when no strategy yields a text with the marker.
Payload(f) ==
    CASE f.t = "pct" /\ HasMarker(f.of) -> <<f.of>>
      [] f.t = "b64" /\ f.of.b = "utf8"
         /\ StartsWithLt(f.of.of) /\ HasMarker(f.of.of) -> <<f.of.of>>
      [] f.t = "b64" /\ f.of.b \in {"deflate", "zlib", "gzip"}
         /\ HasMarker(f.of.of) -> <<f.of.of>>
      [] OTHER -> <<>>

\* The pages a fragment gives: its payload, or in relaxed mode the printable
\* residue of its bytes when that holds '<' and '>'.
FragmentPages(f, strict) ==
    IF f.t = "blank" THEN <<>>
    ELSE IF Payload(f) # <<>> THEN Payload(f)
    ELSE IF ~strict /\ f.t = "b64" /\ HasAngles(Cleaned(f.of))
    THEN <<Cleaned(f.of)>>
    ELSE <<>>

\* A non-empty fragment for which every strategy of the mode fails.
FragmentFails(f, strict) == f.t # "blank" /\ FragmentPages(f, strict) = <<>>

RECURSIVE Concat(_)
Concat(seqs) == IF seqs = <<>> THEN <<>> ELSE Head(seqs) \o Concat(Tail(seqs))

\* The last call extracted pages from a file whose <diagram> fragments were
\* examined (no marker in the raw input).
FragmentsExamined ==
    /\ call.op = "list_diagram_pages" /\ call.input_data.t = "file"
    /\ ~call.input_data.selfClosing /\ ~HasMarker(call.input_data)

\* C7: a non-empty fragment for which every decoding strategy fails aborts
\* the extraction with DiagramDecompressionError in strict mode; in relaxed
\* mode it alone is skipped: the call returns, and the pages are those of the
\* other fragments, earlier and later, in order.
C7_FailingFragment ==
    FragmentsExamined =>
        LET frags == call.input_data.frags
            failing == \E i \in 1..Len(frags) : FragmentFails(frags[i], strict_mode)
            pages == Concat([i \in 1..Len(frags) |->
                               FragmentPages(frags[i], strict_mode)])
        IN  /\ strict_mode /\ failing => outcome.exc = "DiagramDecompressionError"
            /\ ~strict_mode \/ ~failing =>
                  /\ outcome.exc = ""
                  /\ diagram_pages = pages
                  /\ outcome.indices = [i \in 1..Len(pages) |-> i - 1]

\* Relaxed extraction from a file whose first fragment fails and whose
\* second fragment gives a page.
C7_Witness ==
    /\ FragmentsExamined /\ ~strict_mode
    /\ Len(call.input_data.frags) = 2
    /\ FragmentFails(call.input_data.frags[1], FALSE)
    /\ Len(diagram_pages) = 1

\* The raw input of the last call is one <diagram> container holding the
\* base64 text of the raw-deflate stream of a well-formed model text.
DeflatedModelInput ==
    /\ call.input_data.t = "file" /\ ~call.input_data.selfClosing
    /\ Len(call.input_data.frags) = 1
    /\ call.input_data.frags[1].t = "b64"
    /\ call.input_data.frags[1].of.b = "deflate"
    /\ call.input_data.frags[1].of.of.t = "model"
    /\ call.input_data.frags[1].of.of.ok

\* C8: a <diagram> container holding the base64 text of the raw-deflate
\* stream of a valid model text is extracted as one page, the model text, in
\* both modes; converting it gives the nodes, edges and groups, and the
\* emitted text, that converting the uncompressed model text gives.
C8_DeflateRoundTrip ==
    DeflatedModelInput =>
        LET x == call.input_data.frags[1].of.of
            direct == convert(NewSelf(strict_mode), x, call.diagram_index,
                              call.direction, call.diagram_type)
        IN  /\ diagram_pages = <<x>>
            /\ call.op = "list_diagram_pages" =>
                  outcome.exc = "" /\ outcome.indices = <<0>>
            /\ call.op = "convert" => outcome = direct.out
            /\ Emitted =>
                  diagram = direct.self.diagram /\ node_map = direct.self.node_map

\* A strict convert call on a deflated model with nodes, an edge and groups
\* that emitted text.
C8_Witness ==
    /\ DeflatedModelInput /\ Emitted /\ strict_mode
    /\ diagram.nodes # <<>> /\ diagram.edges # <<>> /\ diagram.groups # <<>>

\* The tokens of the style attribute of the formatted cell.
StyleTokens == Split(OrEmpty(call.input_data.style), ";")

\* The key of a style token: the text before its first '='.
TokenKey(token) ==
    IF FirstIndex(token, "=", 1) = 0 THEN token
    ELSE SubSeq(token, 1, FirstIndex(token, "=", 1) - 1)

\* The last style token with the given key, <<>> when there is none.
LastToken(key) ==
    LET at == {i \in 1..Len(StyleTokens) : TokenKey(StyleTokens[i]) = <<key>>} IN
    IF at = {} THEN <<>>
    ELSE StyleTokens[CHOOSE i \in at : \A j \in at : j <= i]

\* The style sets key to value, the value compared without regard to case.
StyleSets(key, value) == Lower(LastToken(key)) = <<key, "=", value>>

\* C9: the form of a node line is given by the first rule that matches, in
\* the order: shape=rhombus (value in any case), the diamond; shape=ellipse
\* or a style key ellipse, the double circle; rounded=1 or shape=stadium,
\* the rounded form; otherwise the rectangle.
C9_NodeShape ==
    call.op = "_format_node" /\ LastToken("shape") # <<"shape">> =>
        LET id == <<"N">> \o call.input_data.id
            label == IF Truthy(call.input_data.value)
                     THEN Strip(call.input_data.value)
                     ELSE <<"Node_">> \o call.input_data.id
            quoted == <<"\"">> \o label \o <<"\"">>
        IN  /\ outcome.exc = ""
            /\ outcome.text =
                  IF StyleSets("shape", "rhombus")
                  THEN id \o <<"{">> \o quoted \o <<"}">>
                  ELSE IF StyleSets("shape", "ellipse") \/ LastToken("ellipse") # <<>>
                  THEN id \o <<"(", "(", " ">> \o quoted \o <<" ", ")", ")">>
                  ELSE IF LastToken("rounded") = <<"rounded", "=", "1">>
                          \/ StyleSets("shape", "stadium")
                  THEN id \o <<"(">> \o quoted \o <<")">>
                  ELSE id \o <<"[">> \o quoted \o <<"]">>

\* A node whose style matches the diamond rule and the rounded rule, and is
\* written as a diamond.
C9_Witness ==
    /\ call.op = "_format_node"
    /\ StyleSets("shape", "rhombus") /\ LastToken("rounded") = <<"rounded", "=", "1">>
    /\ \E i \in 1..Len(outcome.text) : outcome.text[i] = "{"

\* C10: an edge line uses --> unless the style enables dashed (dashed=1 or
\* a bare dashed flag), then -.->; a style with no dashed key or with
\* dashed=0 stays solid; endArrow=none removes the head '>' of the connector
\* chosen; a non-empty trimmed label gives 'Nsrc -- "label" connector Ntgt',
\* an empty one 'Nsrc connector Ntgt'.
C10_EdgeConnector ==
    call.op = "_format_edge" =>
        LET dashed == LastToken("dashed") \in {<<"dashed", "=", "1">>, <<"dashed">>}
            line == IF dashed THEN <<"-", ".", "-">> ELSE <<"-", "-">>
            connector == IF LastToken("endArrow") = <<"endArrow", "=", "none">>
                         THEN line ELSE line \o <<">">>
            label == Strip(OrEmpty(call.input_data.value))
            src == <<"N">> \o call.input_data.source
            tgt == <<"N">> \o call.input_data.target
        IN  /\ outcome.exc = ""
            /\ outcome.text =
                  IF label # <<>>
                  THEN src \o <<" ", "-", "-", " ", "\"">> \o label \o <<"\"", " ">>
                       \o connector \o <<" ">> \o tgt
                  ELSE src \o <<" ">> \o connector \o <<" ">> \o tgt

\* The lines of the emitted text.
Lines == Split(outcome.text, "\n")

\* A line that holds a connector.
IsEdgeLine(line) == \E i \in 1..Len(line) : line[i] = "-"

\* A node line at indentation level 0.
IsFlatNodeLine(line) == line # <<>> /\ line[1] = "N" /\ ~IsEdgeLine(line)

\* The ids of the nodes that are a member of some group of the built model.
MemberIds ==
    UNION {{diagram.groups[g].v.children[i].id :
               i \in 1..Len(diagram.groups[g].v.children)} :
           g \in 1..Len(diagram.groups)}

\* C11: the flat pass emits a line for exactly the nodes that are a member of
\* no group, in document order (nodes whose line cannot be formatted aside):
\* a member of a group gets no flat line, a container that is no member does.
C11_FlatNodes ==
    Emitted =>
        SelectSeq(Lines, IsFlatNodeLine)
          = LET flat == SelectSeq(diagram.nodes,
                          LAMBDA n : n.id \notin MemberIds /\ _format_node(n).exc = "")
            IN  [i \in 1..Len(flat) |-> _format_node(flat[i]).val]

\* The part of the output a line belongs to: 0 the header, 1 a group block,
\* 2 a flat node line, 3 an edge line.
LineRank(line) ==
    IF line # <<>> /\ line[1] = "flowchart" THEN 0
    ELSE IF IsEdgeLine(line) THEN 3
    ELSE IF IsFlatNodeLine(line) THEN 2
    ELSE 1

\* The lines of all nodes and of all edges that can be formatted, in
\* document order.
AllNodeLines ==
    LET ok == SelectSeq(diagram.nodes, LAMBDA n : _format_node(n).exc = "")
    IN  [i \in 1..Len(ok) |-> _format_node(ok[i]).val]

AllEdgeLines ==
    LET ok == SelectSeq(diagram.edges, LAMBDA e : _format_edge(e).exc = "")
    IN  [i \in 1..Len(ok) |-> _format_edge(ok[i]).val]

\* The members of seq that occur in picked, in the order of seq.
Among(seq, picked) ==
    SelectSeq(seq, LAMBDA x : \E i \in 1..Len(picked) : picked[i] = x)

\* C12: the text begins with the header 'flowchart <direction>' for every
\* requested kind, and an unsupported kind is no error in either mode; then
\* come the group blocks, then the flat node lines in document order, then
\* the edge lines in document order; nothing but edge lines follows an edge
\* line.
C12_LineOrder ==
    /\ PageParsed => outcome.exc = "" /\ outcome.text # <<>>
    /\ Emitted =>
          /\ Lines[1] = <<"flowchart", " ">> \o call.direction
          /\ \A i \in 2..Len(Lines) : LineRank(Lines[i]) # 0
          /\ \A i, j \in 1..Len(Lines) :
                i < j => LineRank(Lines[i]) <= LineRank(Lines[j])
          /\ SelectSeq(Lines, IsFlatNodeLine)
                = Among(AllNodeLines, SelectSeq(Lines, IsFlatNodeLine))
          /\ SelectSeq(Lines, IsEdgeLine)
                = Among(AllEdgeLines, SelectSeq(Lines, IsEdgeLine))

\* A strict convert call for the kind "sequence" that emitted a group block,
\* a flat node line and an edge line.
C12_Witness ==
    /\ Emitted /\ strict_mode /\ call.diagram_type # <<"flowchart">>
    /\ \A r \in 0..3 : \E i \in 1..Len(Lines) : LineRank(Lines[i]) = r

\* The non-empty tokens of the style, and the last of them with a given key.
FilledTokens == SelectSeq(StyleTokens, LAMBDA t : t # <<>>)

LastFilled(k) ==
    LET at == {i \in 1..Len(FilledTokens) : TokenKey(FilledTokens[i]) = k} IN
    FilledTokens[CHOOSE i \in at : \A j \in at : j <= i]

\* The value a token gives its key: the text after its first '=', or true.
TokenValue(token) ==
    IF FirstIndex(token, "=", 1) = 0 THEN PyTrue
    ELSE SubSeq(token, FirstIndex(token, "=", 1) + 1, Len(token))

\* C13: parse_style returns the map with one entry per key of the non-empty
\* ';'-separated tokens; the key is the text before the token's first '=',
\* the value everything after it, or the key is the whole token and the
\* value true; the last token of a key decides; the empty string gives the
\* empty map; nothing is raised.
C13_ParseStyle ==
    call.op = "parse_style" =>
        LET d == outcome.val IN
        /\ outcome.exc = ""
        /\ {d[i].k : i \in 1..Len(d)}
              = {TokenKey(FilledTokens[i]) : i \in 1..Len(FilledTokens)}
        /\ \A i, j \in 1..Len(d) : d[i].k = d[j].k => i = j
        /\ \A i \in 1..Len(d) : d[i].v = TokenValue(LastFilled(d[i].k))
        /\ OrEmpty(call.input_data.style) = <<>> => d = <<>>

\* A style of two tokens with one key, the first with a value holding '=',
\* parsed into one entry.
C13_Witness ==
    /\ call.op = "parse_style" /\ Len(FilledTokens) = 2
    /\ TokenKey(FilledTokens[1]) = TokenKey(FilledTokens[2])
    /\ FirstIndex(TokenValue(FilledTokens[1]), "=", 1) # 0
    /\ Len(outcome.val) = 1

\* A style map as a set of (key, value) pairs: dict equality ignores order.
AsMap(d) == {<<d[i].k, d[i].v>> : i \in 1..Len(d)}

\* str(value) of a style value: the flag value True prints as "True".
StrValue(v) == IF v = PyTrue THEN <<"True">> ELSE v

\* A style map rendered with every entry as key=value, joined by ';'.
RenderKeyValue(d) ==
    Join([i \in 1..Len(d) |-> d[i].k \o <<"=">> \o StrValue(d[i].v)], ";")

\* A style map rendered with a valued entry as key=value and a flag entry
\* as the bare key, joined by ';'.
RenderFlagsBare(d) ==
    Join([i \in 1..Len(d) |->
            IF d[i].v = PyTrue THEN d[i].k ELSE d[i].k \o <<"=">> \o d[i].v], ";")

\* C14 as stated: rendering parse_style(s) with each entry as key=value and
\* parsing the text again gives a map equal to parse_style(s).
C14_RoundTripKeyValue ==
    call.op = "parse_style" =>
        AsMap(parse_style(RenderKeyValue(outcome.val))) = AsMap(outcome.val)

\* C14 amended: rendering parse_style(s) with each valued entry as key=value
\* and each flag entry as the bare key, and parsing the text again, gives a
\* map equal to parse_style(s).
C14_RoundTripFlagsBare ==
    call.op = "parse_style" =>
        AsMap(parse_style(RenderFlagsBare(outcome.val))) = AsMap(outcome.val)

\* A parsed map holding a flag entry and an entry whose value holds '='.
C14_Witness ==
    /\ call.op = "parse_style"
    /\ \E i \in 1..Len(outcome.val) : outcome.val[i].v = PyTrue
    /\ \E i \in 1..Len(outcome.val) :
          FirstIndex(outcome.val[i].v, "=", 1) # 0

\* The last call was convert, it selected a page, and the XML parser rejects
\* the text of that page.
PageUnparsable ==
    /\ PageSelected
    /\ LET i == IF IndexOutOfRange(call.diagram_index, diagram_pages) THEN 0
                ELSE call.diagram_index
       IN  ETfromstring(NormalizeXml(diagram_pages[i + 1])).exc # ""

\* C15 as stated: when the selected page cannot be parsed into an XML root,
\* convert returns the empty string in strict mode as in relaxed mode.
C15_EmptyRegardless ==
    PageUnparsable => outcome.exc = "" /\ outcome.text = <<>>

\* C15 amended: when the selected page cannot be parsed into an XML root,
\* convert returns the empty string in relaxed mode and raises
\* DiagramParsingError in strict mode.
C15_EmptyWhenRelaxed ==
    PageUnparsable =>
        /\ ~strict_mode => outcome.exc = "" /\ outcome.text = <<>>
        /\ strict_mode => outcome.exc = "DiagramParsingError"

\* A strict convert call on a page the parser rejects.
C15_Witness ==
    PageUnparsable /\ strict_mode /\ outcome.exc = "DiagramParsingError"

\* The built model holds a node whose line cannot be formatted, or an edge
\* with known endpoints whose line cannot be formatted.
ItemFails ==
    \/ \E i \in 1..Len(diagram.nodes) : _format_node(diagram.nodes[i]).exc # ""
    \/ \E i \in 1..Len(diagram.edges) :
          /\ ~MissingEndpoints(node_map, diagram.edges[i])
          /\ _format_edge(diagram.edges[i]).exc # ""

\* C16: in strict mode a failure while formatting a node or an edge (a cell
\* without id) is raised out of convert; in relaxed mode the item is skipped
\* and the rest of the text is produced.
C16_StrictEmissionRaises ==
    PageParsed /\ ItemFails =>
        /\ strict_mode => outcome.exc # ""
        /\ ~strict_mode => outcome.exc = "" /\ outcome.text # <<>>

\* The ids of the groups of the built model.
GroupIds == {diagram.groups[g].k : g \in 1..Len(diagram.groups)}

\* The member links of group id g: the ids of its members that are group ids.
MemberLinks(g) ==
    {c \in GroupIds :
        \E i \in 1..Len(DictGet(diagram.groups, g, None).children) :
            DictGet(diagram.groups, g, None).children[i].id = c}

\* The group ids reached from the ids in from by at most n member links.
RECURSIVE Reached(_, _)
Reached(from, n) ==
    IF n = 0 THEN from
    ELSE Reached(from \cup UNION {MemberLinks(g) : g \in from}, n - 1)

\* The group ids reachable from g by one or more member links.
ReachableFrom(g) == Reached(MemberLinks(g), Len(diagram.groups))

\* No group id is reachable from itself.
GroupsFormForest == \A g \in GroupIds : g \notin ReachableFrom(g)

\* The group id of a subgraph header line, at any indentation.
HeaderIds(lines) ==
    LET headers == SelectSeq(lines, LAMBDA l : FirstIndex(l, "subgraph", 1) # 0)
    IN  [i \in 1..Len(headers) |->
            SubSeq(headers[i], FirstIndex(headers[i], "subgraph", 1) + 2,
                   FirstIndex(headers[i], "[", 1) - 1)]

\* How often x occurs in seq.
Count(seq, x) == Cardinality({i \in 1..Len(seq) : seq[i] = x})

\* C17 (on models whose groups form a forest): the blocks at indentation
\* level 0 are those of the top-level groups, the groups whose container
\* is no member of a group, in insertion order; the block of a nested
\* group appears inside its parent's block only, so every group block and
\* every grouped node line appears exactly once.
C17_TopLevelOnly ==
    Emitted /\ GroupsFormForest =>
        LET top == SelectSeq(diagram.groups, LAMBDA g : g.k \notin MemberIds)
            grouped == SelectSeq(diagram.nodes,
                         LAMBDA n : n.id \in MemberIds \ GroupIds
                                    /\ _format_node(n).exc = "")
            unindented == [i \in 1..Len(Lines) |->
                             SelectSeq(Lines[i], LAMBDA a : a # "    ")]
        IN  /\ HeaderIds(SelectSeq(Lines, LAMBDA l : l # <<>> /\ l[1] = "subgraph"))
                  = [i \in 1..Len(top) |-> top[i].k]
            /\ \A g \in GroupIds : Count(HeaderIds(Lines), g) = 1
            /\ \A i \in 1..Len(grouped) :
                  Count(unindented, _format_node(grouped[i]).val) = 1

\* Group id g is, or reaches by member links, a group that contains itself
\* directly or transitively.
ReachesCycle(g) == \E h \in {g} \cup ReachableFrom(g) : h \in ReachableFrom(h)

\* The group ids of the blocks at indentation level 0 of the output.
TopHeaderIds ==
    HeaderIds(SelectSeq(Lines, LAMBDA l : l # <<>> /\ l[1] = "subgraph"))

\* The 'end' lines of group_lines, at any indentation.
EndLines(group_lines) ==
    SelectSeq(group_lines,
              LAMBDA l : SelectSeq(l, LAMBDA a : a # "    ") = <<"end">>)

\* The call of _emit_subgraph_recursive for group g at level 0, with result
\* r, returned one 'end' per 'subgraph' header exactly when g reaches no
\* cycle, and otherwise ended in RecursionError, which drops g's block.
RecursionEnds(g, r) ==
    /\ r.exc = "" <=> ~ReachesCycle(g)
    /\ r.exc = "" =>
          /\ Len(EndLines(r.val)) = Len(HeaderIds(r.val))
          /\ Count(TopHeaderIds, g) = 1
    /\ r.exc # "" => r.exc = "RecursionError" /\ Count(TopHeaderIds, g) = 0

C19_GroupsForest == PageParsed => GroupsFormForest

\* The node indexed under id G marks a container: its raw style text
\* contains 'group' or 'swimlane'.
IsContainer(G) ==
    /\ DictHas(node_map, G)
    /\ \/ HasSub(DictGet(node_map, G, None).style, "group")
       \/ HasSub(DictGet(node_map, G, None).style, "swimlane")

\* The collected nodes whose parent id is G, in document order.
MembersOf(G) == SelectSeq(diagram.nodes, LAMBDA n : n.parent = G)

\* The group index holds G exactly when G qualifies and has a member; its
\* member list is then the nodes whose parent id is G, in document order,
\* and its label the container's label or 'Group_<id>'.
GroupAsStated(G, qualifies) ==
    IF qualifies /\ MembersOf(G) # <<>>
    THEN /\ DictHas(diagram.groups, G)
         /\ DictGet(diagram.groups, G, None).children = MembersOf(G)
         /\ DictGet(diagram.groups, G, None).label =
               IF DictGet(node_map, G, None).label # <<>>
               THEN DictGet(node_map, G, None).label
               ELSE <<"Group_">> \o G
    ELSE ~DictHas(diagram.groups, G)

\* Every group of the index is keyed by the id of a collected node and has
\* a member, and no node is in the member lists more often than once.
GroupsWellFormed ==
    /\ GroupIds \subseteq NodeIds
    /\ \A g \in 1..Len(diagram.groups) : diagram.groups[g].v.children # <<>>
    /\ \A g, h \in 1..Len(diagram.groups) :
          \A i \in 1..Len(diagram.groups[g].v.children) :
            \A j \in 1..Len(diagram.groups[h].v.children) :
               diagram.groups[g].v.children[i] = diagram.groups[h].v.children[j]
                  => g = h

\* C20 as stated: a node is a member of group G exactly when its parent id
\* is G, G is the id of a collected node and that node's raw style text
\* contains 'group' or 'swimlane'.
C20_Membership ==
    PageParsed =>
        /\ \A G \in NodeIds \ {None} : GroupAsStated(G, IsContainer(G))
        /\ GroupsWellFormed

\* C20: a node is a member of group G exactly when its parent id is G and
\* not empty, G is the id of a collected node and the node indexed under G
\* has a raw style text that contains 'group' or 'swimlane'; each node is in
\* at most one member list, every group has a member and is keyed by the id
\* of a collected node, members are in document order, and the label is the
\* container's label or 'Group_<id>'.
C20_MembershipNonEmptyId ==
    PageParsed =>
        /\ \A G \in NodeIds : GroupAsStated(G, Truthy(G) /\ IsContainer(G))
        /\ GroupsWellFormed

\* A built model with a group of two members under a generated label, a
\* cell whose empty parent id is the id of a container, and a cell whose
\* parent id is indexed under a node that is no container.
C20_Witness ==
    /\ PageParsed
    /\ \E g \in 1..Len(diagram.groups) :
          /\ Len(diagram.groups[g].v.children) = 2
          /\ diagram.groups[g].v.label = <<"Group_">> \o diagram.groups[g].k
    /\ IsContainer(<<>>) /\ MembersOf(<<>>) # <<>>
    /\ \E G \in NodeIds : Truthy(G) /\ ~IsContainer(G) /\ MembersOf(G) # <<>>

\* The last call extracted pages by examining the <diagram> fragments of
\* its input: no marker in the raw text, fragments found by the pattern or
\* as the element texts of an <mxfile>.
FragmentsTried ==
    /\ call.op = "list_diagram_pages"
    /\ \/ call.input_data.t = "escfile"
       \/ /\ call.input_data.t = "file" /\ ~call.input_data.selfClosing
          /\ ~HasMarker(call.input_data)

\* What each decoding strategy makes of the trimmed fragment d, in the fixed
\* order: <<page>> when its result is accepted, <<>> otherwise.
\* 1 literal XML, 2 percent-decoding, 3 base64 with direct use,
\* 4 the decompression variants, 5 last-resort stripping.
StrategyResults(d, strict) ==
    << IF d.t \in {"model", "file"} /\ StartsWithLt(d) /\ HasMarker(d)
       THEN <<d>> ELSE <<>>,
       IF d.t = "pct" /\ HasMarker(d.of) THEN <<d.of>> ELSE <<>>,
       IF d.t = "b64" /\ d.of.b = "utf8" /\ StartsWithLt(d.of.of)
          /\ HasMarker(d.of.of)
       THEN <<d.of.of>> ELSE <<>>,
       IF d.t = "b64" /\ d.of.b \in {"deflate", "zlib", "gzip"}
          /\ HasMarker(d.of.of)
       THEN <<d.of.of>> ELSE <<>>,
       IF ~strict /\ d.t = "b64" /\ HasAngles(Cleaned(d.of))
       THEN <<Cleaned(d.of)>> ELSE <<>> >>

\* The result of the first strategy that accepts, <<>> when none does.
RECURSIVE FirstAccepted(_)
FirstAccepted(results) ==
    IF results = <<>> THEN <<>>
    ELSE IF Head(results) # <<>> THEN Head(results)
    ELSE FirstAccepted(Tail(results))

\* The number of strategies that accept the trimmed fragment d.
Accepting(d, strict) ==
    Cardinality({k \in 1..5 : StrategyResults(d, strict)[k] # <<>>})

PossiblePages(f) ==
    {StrategyResults(StripText(f), FALSE)[k][1] :
        k \in {j \in 1..5 : StrategyResults(StripText(f), FALSE)[j] # <<>>}}

\* src names, for every page, the fragment it comes from, and a later page
\* comes from a later fragment.
InDiscoveryOrder(src, pages, frags) ==
    /\ \A p \in 1..Len(pages) : pages[p] \in PossiblePages(frags[src[p]])
    /\ \A p, q \in 1..Len(pages) : p < q => src[p] < src[q]

\* The file of the last call without its empty fragments.
WithoutBlanks(x) ==
    [x EXCEPT !.frags = SelectSeq(x.frags, LAMBDA f : f.t # "blank")]

\* C22: the page list built from fragments keeps discovery order with at
\* most one page per fragment, so it is never longer than the fragment
\* list; an empty fragment gives no page and no error in either mode: a
\* file of empty fragments only gives no page and no error, and any other
\* file gives what it gives without its empty fragments.
C22_DiscoveryOrder ==
    FragmentsTried =>
        /\ \E src \in [1..Len(diagram_pages) -> 1..Len(call.input_data.frags)] :
              InDiscoveryOrder(src, diagram_pages, call.input_data.frags)
        /\ Len(diagram_pages) <= Len(call.input_data.frags)
        /\ IF WithoutBlanks(call.input_data).frags = <<>>
           THEN outcome.exc = "" /\ diagram_pages = <<>>
           ELSE outcome = list_diagram_pages(NewSelf(strict_mode),
                                             WithoutBlanks(call.input_data)).out

\* A strict extraction from a file of four fragments, two of them empty,
\* returned two different pages.
C22_Witness ==
    /\ FragmentsTried /\ strict_mode /\ outcome.exc = ""
    /\ Len(call.input_data.frags) = 4
    /\ Len(WithoutBlanks(call.input_data).frags) = 2
    /\ Len(diagram_pages) = 2 /\ diagram_pages[1] # diagram_pages[2]

\* The page the last convert call selected.
SelectedPage ==
    diagram_pages[(IF IndexOutOfRange(call.diagram_index, diagram_pages) THEN 0
                   ELSE call.diagram_index) + 1]

\* The last convert call built its model from a page that is one model
\* text (or one well-formed text of another element): the direct cells of
\* the root element are the cells of that text.
ModelPageBuilt == PageParsed /\ SelectedPage.t \in {"model", "other"}

\* What the claim makes of a cell: "none", "node" or "edge".
CellKind(cell) ==
    IF cell.id \in {<<"0">>, <<"1">>} THEN "none"
    ELSE IF cell.vertex = <<"1">> THEN "node"
    ELSE IF cell.edge = <<"1">> THEN "edge"
    ELSE "none"

\* The cells of one kind, in document order.
CellsOfKind(cells, kind) == SelectSeq(cells, LAMBDA c : CellKind(c) = kind)

\* C23: every direct cell of the root element is classified: id '0' or '1'
\* yields nothing whatever its markers; otherwise vertex='1' yields exactly
\* one Node; otherwise edge='1' yields exactly one Edge; any other cell
\* yields nothing, and no cell an error, in either mode.  Nodes and edges
\* keep document order; a cell with both markers becomes a Node only.
C23_CellClassification ==
    ModelPageBuilt =>
        LET nodes == CellsOfKind(SelectedPage.cells, "node")
            edges == CellsOfKind(SelectedPage.cells, "edge")
        IN  /\ outcome.exc = ""
            /\ [i \in 1..Len(diagram.nodes) |->
                    <<diagram.nodes[i].id, diagram.nodes[i].label,
                      diagram.nodes[i].style, diagram.nodes[i].parent>>]
                 = [i \in 1..Len(nodes) |->
                    <<nodes[i].id, OrEmpty(nodes[i].value),
                      OrEmpty(nodes[i].style), nodes[i].parent>>]
            /\ [i \in 1..Len(diagram.edges) |->
                    <<diagram.edges[i].id, diagram.edges[i].source,
                      diagram.edges[i].target, diagram.edges[i].label>>]
                 = [i \in 1..Len(edges) |->
                    <<edges[i].id, edges[i].source, edges[i].target,
                      OrEmpty(edges[i].value)>>]

\* A strict conversion built its model from a page with a reserved id that
\* carries a vertex marker, a cell with both markers, a cell with none and
\* cells without id, and kept two nodes or more and two edges.
C23_Witness ==
    /\ ModelPageBuilt /\ strict_mode
    /\ \E i \in 1..Len(SelectedPage.cells) :
          /\ SelectedPage.cells[i].id \in {<<"0">>, <<"1">>}
          /\ SelectedPage.cells[i].vertex = <<"1">>
    /\ \E i \in 1..Len(SelectedPage.cells) :
          /\ CellKind(SelectedPage.cells[i]) = "node"
          /\ SelectedPage.cells[i].edge = <<"1">>
    /\ \E i \in 1..Len(SelectedPage.cells) :
          /\ SelectedPage.cells[i].id \notin {<<"0">>, <<"1">>}
          /\ SelectedPage.cells[i].vertex # <<"1">>
          /\ SelectedPage.cells[i].edge # <<"1">>
    /\ Len(diagram.nodes) >= 2 /\ Len(diagram.edges) = 2

\* The node lines of the output, indentation removed.
NodeLines ==
    SelectSeq([i \in 1..Len(Lines) |-> SelectSeq(Lines[i], LAMBDA a : a # "    ")],
              LAMBDA l : l # <<>> /\ l[1] = "N" /\ ~IsEdgeLine(l))

\* The label text of a node line: what stands between its quotes.
LabelText(line) ==
    LET quotes == {i \in 1..Len(line) : line[i] = "\""}
    IN  SubSeq(line, (CHOOSE i \in quotes : \A j \in quotes : i <= j) + 1,
                     (CHOOSE i \in quotes : \A j \in quotes : i >= j) - 1)

\* The label text the claim gives a node: its trimmed label, or the
\* placeholder when the trimmed label is empty.
TrimmedOrPlaceholder(node) ==
    IF Strip(node.label) # <<>> THEN Strip(node.label)
    ELSE <<"Node_">> \o node.id

\* C24: the label text of every emitted node line is the node's trimmed
\* label, or 'Node_<id>' when the trimmed label is empty (missing, empty
\* and whitespace-only alike), so no node line carries empty label text;
\* the identifier of the line is 'N' followed by the raw id.
C24_NodeLabel ==
    Emitted =>
        \A l \in 1..Len(NodeLines) :
            /\ LabelText(NodeLines[l]) # <<>>
            /\ \E i \in 1..Len(diagram.nodes) :
                  /\ SubSeq(NodeLines[l], 1, 1 + Len(diagram.nodes[i].id))
                        = <<"N">> \o diagram.nodes[i].id
                  /\ LabelText(NodeLines[l]) = TrimmedOrPlaceholder(diagram.nodes[i])

\* The model text inside a normalized page: the page itself, or the one
\* fragment of its <diagram> wrapper.
InnerText(y) == IF y.t = "file" THEN y.frags[1] ELSE y

\* The first two normalizations of the selected page took effect where
\* they apply: no '&nbsp;' is left, and a page with the marker and without
\* prolog got one.
EntityAndProlog ==
    /\ SelectedPage.ent = "nbsp" =>
          InnerText(NormalizeXml(SelectedPage)).ent = "num"
    /\ ~StartsWithProlog(StripText(SelectedPage)) =>
          StartsWithProlog(NormalizeXml(SelectedPage))
          \/ StartsWithProlog(InnerText(NormalizeXml(SelectedPage)))

\* C25: before parsing, every '&nbsp;' is rewritten to '&#160;', a page
\* without prolog that contains the marker gets a prolog, and a page whose
\* trimmed text begins with the graph-model element is wrapped in a
\* <diagram> element, through which its parsed root is reached.
C25_Normalizations ==
    PageSelected /\ SelectedPage.t = "model" =>
        /\ EntityAndProlog
        /\ StartsWithModel(StripText(SelectedPage)) =>
              /\ NormalizeXml(SelectedPage).t = "file"
              /\ ETfromstring(NormalizeXml(SelectedPage)).exc = "" =>
                    ETfromstring(NormalizeXml(SelectedPage)).val.tag = "diagram"

\* What the call of thread t returns when it runs alone.
Alone(t) ==
    convert(NewSelf(strict_mode), call[t].input_data, call[t].diagram_index,
            call[t].direction, call[t].diagram_type).out

\* C26: the page list and the model of a convert call are scoped to the
\* call: when two convert calls on one instance interleave, neither
\* observes or overwrites the pages, the node index or the group index of
\* the other, so each call returns what it returns when run alone.
C26_CallsIsolated ==
    \A t \in Threads : call[t].pc = "done" => outcome[t] = Alone(t)

====
